---- MODULE Spec2Model ----
(***************************************************************************)
(* VolRec: shape-from-silhouette reconstruction.                           *)
(*                                                                         *)
(* Part 1 models Scene::create_volume (source/scene.cpp), the parallel     *)
(* voxel carver, together with the Volume setters it calls                 *)
(* (source/model/volume.cpp).  Part 2 models Camera::load_project and      *)
(* Camera::run_calibration (source/camera.cpp).                            *)
(***************************************************************************)
EXTENDS Integers, Sequences, FiniteSets, TLC

VARIABLES
    \* ---- Scene / Volume (source/scene.cpp, source/model/volume.cpp)
    views,                  \* the argument of Scene::load_project: project->views
    scene_pc,               \* where the scene is: "constructed", "parallel", "carved", "empty"
    voxels,                 \* volume_->voxels_, indexed by storage slot; <<>> while volume_ is null
    gpu_data_dirty_,        \* volume_->gpu_data_dirty_
    volume_texture_dirty_,  \* volume_->volume_texture_dirty_
    thread_voxels,          \* create_volume's thread_voxels: one vector per OpenMP thread
    next_idx,               \* the dynamic schedule's first iteration not yet handed out
    cur,                    \* per thread: the iteration it executes next
    stop,                   \* per thread: the end (exclusive) of the chunk it holds
    writes,                 \* the stores made inside the current parallel region
    prev_voxels,            \* the grid the previous completed create_volume left; <<>> if none
    \* ---- Camera / Project (source/camera.cpp, source/project.hpp)
    project,                \* the Project handed to Camera::load_project
    files,                  \* the calibration record file at each view's cb_path
    cam_pc,                 \* where Camera::load_project is
    images,                 \* run_calibration's images: the view each kept image came from
    preview_i,              \* the preview loop's index i
    key,                    \* what cv::waitKey returned last, 0 before the first preview
    error,                  \* the exception that left Camera::load_project, or "none"
    before,                 \* the views and files as they were when load_project was called
    \* ---- App (source/app.cpp, source/overlay.cpp, source/main.cpp)
    app_pc,                 \* where the application is: "ctor", "open", "load", "running", "exited"
    json,                   \* the project file being loaded: its chessboard block, and how the load began
    holds,                  \* per component: the project its project_ (or its models) came from
    calls,                  \* the calls made so far by the load in progress or last ended
    \* ---- Camera::calc_mask (source/camera.cpp)
    fg_img,                 \* calc_mask's fg_img, one BGR triple per pixel, row-major
    bg_img,                 \* calc_mask's bg_img
    mask_pre,               \* mask after bitwise_or (camera.cpp:399), <<>> before
    mask_out,               \* calc_mask's mask, which it returns; <<>> before bitwise_or
    mask_pc,                \* where calc_mask is: "called", "combined", ..., "returned"
    \* ---- Renderer, Overlay, Input and Camera's view state (source/renderer.hpp,
    \*      source/overlay.hpp, source/input.hpp, source/camera.hpp)
    show,                   \* Renderer's show_box_ ... show_background_, by name
    checks,                 \* Overlay's show_box_ ... show_background_, by name
    loaded,                 \* the Project the camera and the overlay hold: views, initialized
    current_view_index_,    \* Camera::current_view_index_
    freeform_view_,         \* Camera::freeform_view_, which current_view_ is a reference to
    active_camera_view_,    \* Overlay::active_camera_view_
    window,                 \* Renderer's <<window_width_, window_height_>>
    frame,                  \* the last frame Renderer::render drew: its window size and projection
    lmb_down_,              \* Input::lmb_down_
    rmb_down_,              \* Input::rmb_down_
    mouse,                  \* Input's <<mouse_x_, mouse_y_>>
    \* ---- a single call of a member function taken on its own
    args,                   \* the arguments of the call, and the object's fields it reads
    result,                 \* what the call has produced so far
    call_pc                 \* where the call is

scene_vars == <<views, scene_pc, voxels, gpu_data_dirty_, volume_texture_dirty_,
                thread_voxels, next_idx, cur, stop, writes, prev_voxels>>
camera_vars == <<project, files, cam_pc, images, preview_i, key, error, before>>
app_vars == <<app_pc, json, holds, calls>>
mask_vars == <<fg_img, bg_img, mask_pre, mask_out, mask_pc>>
ui_vars == <<show, checks, loaded, current_view_index_, freeform_view_, active_camera_view_,
             window, frame, lmb_down_, rmb_down_, mouse>>
call_vars == <<args, result, call_pc>>
vars == <<scene_vars, camera_vars, app_vars, mask_vars, ui_vars, call_vars>>

(***************************************************************************)
(* Bounds of the model and constants of the program.                       *)
(***************************************************************************)

\* global.hpp:12
VOLUME_VOXEL_SIZE == 40

\* global.hpp:13 sets 800, a 40 x 40 x 20 grid of 32000 voxels.  The model
\* bounds the working volume: 60 gives a 3 x 3 x 1 grid, whose 9 iterations
\* make four full chunks and one short one.
VOLUME_BOX_LENGTH == 60

\* schedule(dynamic, 2), scene.cpp:179
OMP_CHUNK == 2

\* omp_get_max_threads(), scene.cpp:173: set by the environment
NumThreads == 2

\* the longest list of views handed to create_volume
MaxViews == 2

\* the resolution of the silhouette masks
ImageCols == 3

ImageRows == 2

\* std::numeric_limits<uint8_t>::max(), scene.cpp:165
MASK_ON == 255

\* the most views a project handed to the camera has
MaxProjectViews == 4

\* the key code of ESC, camera.cpp:246
KEY_ESC == 27

\* the key codes cv::waitKey(0) returns in the model: ESC, Enter and space
Keys == {KEY_ESC, 13, 32}

Threads == 1..NumThreads

(***************************************************************************)
(* Part 1: the voxel carver.                                               *)
(***************************************************************************)

\* num_x, num_y, num_z of create_volume (scene.cpp:168-170) for a working volume
\* of edge box_length and voxels of edge voxel_size
GridDims(box_length, voxel_size) ==
    <<(box_length * 2) \div voxel_size, (box_length * 2) \div voxel_size,
      box_length \div voxel_size>>

num_x == GridDims(VOLUME_BOX_LENGTH, VOLUME_VOXEL_SIZE)[1]

num_y == GridDims(VOLUME_BOX_LENGTH, VOLUME_VOXEL_SIZE)[2]

num_z == GridDims(VOLUME_BOX_LENGTH, VOLUME_VOXEL_SIZE)[3]

\* the dimensions of create_empty_volume with num_z computed as num_x is
EmptyGridDimsCube(box_length, voxel_size) ==
    <<(box_length * 2) \div voxel_size, (box_length * 2) \div voxel_size,
      (box_length * 2) \div voxel_size>>

\* num_x, num_y, num_z of create_empty_volume (scene.cpp:122-124)
EmptyGridDims(box_length, voxel_size) ==
    <<(box_length * 2) \div voxel_size, (box_length * 2) \div voxel_size,
      box_length \div voxel_size>>

total_voxels == num_x * num_y * num_z

\* Volume(num_x, num_y, num_z, ...): width_, height_, depth_ (volume.cpp:50-52)
width_ == num_x

height_ == num_y

depth_ == num_z

\* glm::vec4(1.0f), the color of Voxel() (voxel.hpp:23), in tenths
DEFAULT_COLOR == <<10, 10, 10, 10>>

\* glm::vec4(0.8f, 0.3f, 0.2f, 0.9f) (scene.cpp:197 and :135), in tenths
CARVE_COLOR == <<8, 3, 2, 9>>

\* Voxel() (voxel.hpp:21-25); density in tenths; position is a function of the
\* slot alone (volume.cpp:58-65) and is left out
DefaultVoxel == [active |-> FALSE, color |-> DEFAULT_COLOR, density |-> 10]

\* get_index with the row stride left out of the y term
get_index_no_stride(x, y, z) == z * width_ * height_ + y + x

\* Volume::get_index (volume.cpp:376-378) in a volume of width w and height h
IndexOf(w, h, x, y, z) == z * w * h + y * w + x

\* Volume::get_index (volume.cpp:376-378)
get_index(x, y, z) == IndexOf(width_, height_, x, y, z)

\* is_valid_coordinate with the lower bounds made strict
is_valid_coordinate_strict(x, y, z) ==
    /\ x > 0 /\ x < width_
    /\ y > 0 /\ y < height_
    /\ z >= 0 /\ z < depth_

\* Volume::is_valid_coordinate (volume.cpp:380-382) in a volume of w x h x d voxels
ValidIn(w, h, d, x, y, z) ==
    /\ x >= 0 /\ x < w
    /\ y >= 0 /\ y < h
    /\ z >= 0 /\ z < d

\* Volume::is_valid_coordinate (volume.cpp:380-382)
is_valid_coordinate(x, y, z) == ValidIn(width_, height_, depth_, x, y, z)

\* the loop body's index arithmetic with the modulo of yi left out
LoopCoordNoWrap(idx, ny, nz) == <<idx \div (ny * nz), idx \div nz, idx % nz>>

\* the loop body's index arithmetic (scene.cpp:181-183 and 131-133): <<xi, yi, zi>>
\* of iteration idx in a grid with ny and nz voxels along y and z
LoopCoord(idx, ny, nz) == <<idx \div (ny * nz), (idx \div nz) % ny, idx % nz>>

IdxX(idx) == LoopCoord(idx, num_y, num_z)[1]

IdxY(idx) == LoopCoord(idx, num_y, num_z)[2]

IdxZ(idx) == LoopCoord(idx, num_y, num_z)[3]

\* the voxel position in calibration coordinates (scene.cpp:186-188)
VoxelPos(idx) ==
    << -VOLUME_BOX_LENGTH + IdxX(idx) * VOLUME_VOXEL_SIZE,
       -VOLUME_BOX_LENGTH + IdxY(idx) * VOLUME_VOXEL_SIZE,
       IdxZ(idx) * VOLUME_VOXEL_SIZE >>

\* cvRound of the rational n / d, d > 0: to the nearest integer, ties to even
cvRound(n, d) ==
    LET q == n \div d
        r == n % d
    IN  IF 2 * r < d THEN q
        ELSE IF 2 * r > d THEN q + 1
        ELSE IF q % 2 = 0 THEN q ELSE q + 1

\* cv::projectPoints for one point (scene.cpp:151), for the views the model
\* draws: rvec = 0 (the identity rotation), distortion = 0, intrinsic
\* [fx 0 cx; 0 fy cy; 0 0 1].  The point in camera coordinates is pos + tvec_proj
\* and the pixel is (fx * X / Z + cx, fy * Y / Z + cy); the result is the pair of
\* numerators over the common denominator Z > 0.
ProjectPoint(view, pos) ==
    LET X == pos[1] + view.tvec_proj[1]
        Y == pos[2] + view.tvec_proj[2]
        Z == pos[3] + view.tvec_proj[3]
    IN  [ un |-> view.intrinsic.fx * X + view.intrinsic.cx * Z,
          vn |-> view.intrinsic.fy * Y + view.intrinsic.cy * Z,
          d  |-> Z ]

\* int px = cvRound(pt.x); int py = cvRound(pt.y) (scene.cpp:159-160)
PixelX(view, pos) == LET p == ProjectPoint(view, pos) IN cvRound(p.un, p.d)

PixelY(view, pos) == LET p == ProjectPoint(view, pos) IN cvRound(p.vn, p.d)

\* view.mask.empty() (scene.cpp:144)
MaskEmpty(mask) == mask.rows = 0 \/ mask.cols = 0

\* the bounds test of scene.cpp:162, negated
InBounds(px, py, mask) == ~(px < 0 \/ px >= mask.cols \/ py < 0 \/ py >= mask.rows)

\* view.mask.at<uint8_t>(py, px): row-major storage, for a pixel inside the image
MaskAt(mask, py, px) == mask.data[py * mask.cols + px + 1]

\* the comparison inverted
IsOnInverted(value) == value # MASK_ON

\* the comparison of scene.cpp:165
IsOn(value) == value = MASK_ON

\* voxel_visible with the pixel clamped to the image edge instead of rejected
voxel_visible_clamped(view, vox_pos) ==
    IF MaskEmpty(view.mask) THEN FALSE
    ELSE LET px == PixelX(view, vox_pos)
             py == PixelY(view, vox_pos)
             cx == IF px < 0 THEN 0 ELSE IF px >= view.mask.cols THEN view.mask.cols - 1 ELSE px
             cy == IF py < 0 THEN 0 ELSE IF py >= view.mask.rows THEN view.mask.rows - 1 ELSE py
         IN  IsOn(MaskAt(view.mask, cy, cx))

\* the lambda voxel_visible (scene.cpp:142-166); img_pts holds the one projected
\* point, so the img_pts.empty() return of line 154 is never taken
voxel_visible(view, vox_pos) ==
    IF MaskEmpty(view.mask) THEN FALSE
    ELSE LET px == PixelX(view, vox_pos)
             py == PixelY(view, vox_pos)
         IN  IF ~InBounds(px, py, view.mask) THEN FALSE
             ELSE IsOn(MaskAt(view.mask, py, px))

\* std::ranges::any_of in place of all_of
any_visible(vs, vox_pos) == \E i \in 1..Len(vs) : voxel_visible(vs[i], vox_pos)

\* std::ranges::all_of(views, ...) (scene.cpp:190-192): true of an empty range
all_visible(vs, vox_pos) == \A i \in 1..Len(vs) : voxel_visible(vs[i], vox_pos)

\* Volume::set_voxel_active (volume.cpp:95-105), on the voxel array
set_voxel_active(vx, x, y, z, active) ==
    IF ~is_valid_coordinate(x, y, z) THEN vx
    ELSE [vx EXCEPT ![get_index(x, y, z) + 1].active = active]

\* Volume::set_voxel_color (volume.cpp:107-116), on the voxel array
set_voxel_color(vx, x, y, z, color) ==
    IF ~is_valid_coordinate(x, y, z) THEN vx
    ELSE [vx EXCEPT ![get_index(x, y, z) + 1].color = color]

\* the Volume of the previous load kept and carved into again
ReusedVolume ==
    IF voxels = <<>> THEN [slot \in 1..(width_ * height_ * depth_) |-> DefaultVoxel]
    ELSE voxels

\* std::make_shared<Volume>(num_x, num_y, num_z, ...): voxels_.resize (volume.cpp:57)
NewVolume == [slot \in 1..(width_ * height_ * depth_) |-> DefaultVoxel]

\* the iteration a thread executes: idx is private to the thread (scene.cpp:180)
TaskIndex(t) == cur[t]

\* where the dynamic schedule's next chunk starts once the chunk at lo is handed out
ChunkEnd(lo) == IF lo + OMP_CHUNK < total_voxels THEN lo + OMP_CHUNK ELSE total_voxels

(***************************************************************************)
(* The views create_volume is run on.                                      *)
(***************************************************************************)

Pixels == ImageRows * ImageCols

NoMask == [rows |-> 0, cols |-> 0, data |-> <<>>]

AllOff == [rows |-> ImageRows, cols |-> ImageCols, data |-> [i \in 1..Pixels |-> 0]]

AllOn == [rows |-> ImageRows, cols |-> ImageCols, data |-> [i \in 1..Pixels |-> MASK_ON]]

\* on where column + row is even
Checker ==
    [rows |-> ImageRows, cols |-> ImageCols,
     data |-> [i \in 1..Pixels |->
                 IF (((i - 1) % ImageCols) + ((i - 1) \div ImageCols)) % 2 = 0
                 THEN MASK_ON ELSE 0]]

MaskSet == {NoMask, AllOff, AllOn, Checker}

\* a distant camera on the z axis: every voxel of the grid lands on pixel (1, 1)
FarCamera ==
    [rvec |-> <<0, 0, 0>>, tvec_proj |-> <<0, 0, 128>>,
     intrinsic |-> [fx |-> 1, fy |-> 1, cx |-> 1, cy |-> 1],
     distortion |-> <<0, 0, 0, 0, 0>>]

\* a near camera: columns -1, 0, 2 (2 from the tie 1.5) and rows -1, 0, 2 at
\* VOLUME_BOX_LENGTH = 60, so one line of voxels is inside the image and the
\* others are outside it on either side
NearCamera ==
    [rvec |-> <<0, 0, 0>>, tvec_proj |-> <<-4, 0, 64>>,
     intrinsic |-> [fx |-> 2, fy |-> 2, cx |-> 1, cy |-> 1],
     distortion |-> <<0, 0, 0, 0, 0>>]

CalibSet == {FarCamera, NearCamera}

MakeView(m, k) ==
    [mask |-> m, rvec |-> k.rvec, tvec_proj |-> k.tvec_proj,
     intrinsic |-> k.intrinsic, distortion |-> k.distortion]

\* a view with a silhouette has either camera; a view without one (no mask, or a
\* mask entirely off) has the far camera, in which every voxel is inside the
\* image and only the mask can hide it
ViewSet ==
    {MakeView(m, k) : m \in {AllOn, Checker}, k \in CalibSet}
        \cup {MakeView(m, FarCamera) : m \in {NoMask, AllOff}}

ViewLists == UNION {[1..n -> ViewSet] : n \in 0..MaxViews}

(***************************************************************************)
(* The scene's operations.                                                 *)
(***************************************************************************)

NoThreadVoxels == [t \in Threads |-> <<>>]

\* the stores of set_voxel_active, set_voxel_color and emplace_back for one voxel
\* found visible, made by thread t in iteration idx (scene.cpp:195-197,
\* volume.cpp:101-104 and :113-115)
TaskWrites(t, idx, x, y, z) ==
    {[task |-> idx, thread |-> t, loc |-> <<"thread_voxels", t>>]}
    \cup (IF is_valid_coordinate(x, y, z)
          THEN {[task |-> idx, thread |-> t, loc |-> l] :
                  l \in {<<"active", get_index(x, y, z)>>,
                         <<"color", get_index(x, y, z)>>,
                         <<"gpu_data_dirty_", 0>>,
                         <<"volume_texture_dirty_", 0>>}}
          ELSE {})

\* Scene::load_project (scene.cpp:27-34) up to the parallel region of
\* create_volume (scene.cpp:168-177): a new Volume replaces volume_
CreateVolumeBegin ==
    /\ scene_pc \in {"constructed", "carved", "empty"}
    /\ voxels' = NewVolume
    /\ gpu_data_dirty_' = TRUE
    /\ volume_texture_dirty_' = TRUE
    /\ thread_voxels' = NoThreadVoxels
    /\ next_idx' = 0
    /\ cur' = [t \in Threads |-> 0]
    /\ stop' = [t \in Threads |-> 0]
    /\ writes' = {}
    /\ prev_voxels' = IF scene_pc = "carved" THEN voxels ELSE prev_voxels
    /\ scene_pc' = "parallel"
    /\ UNCHANGED <<views, camera_vars, app_vars, mask_vars, ui_vars, call_vars>>

\* schedule(dynamic, 2): a thread that has finished its chunk takes the next one
OmpNextChunk(t) ==
    /\ scene_pc = "parallel"
    /\ cur[t] = stop[t]
    /\ next_idx < total_voxels
    /\ cur' = [cur EXCEPT ![t] = next_idx]
    /\ stop' = [stop EXCEPT ![t] = ChunkEnd(next_idx)]
    /\ next_idx' = ChunkEnd(next_idx)
    /\ UNCHANGED <<views, scene_pc, voxels, gpu_data_dirty_, volume_texture_dirty_,
                   thread_voxels, writes, prev_voxels, camera_vars, app_vars, mask_vars, ui_vars, call_vars>>

\* one iteration of the loop (scene.cpp:180-199)
CarveVoxel(t) ==
    /\ scene_pc = "parallel"
    /\ cur[t] < stop[t]
    /\ LET idx == TaskIndex(t)
           xi == IdxX(idx)
           yi == IdxY(idx)
           zi == IdxZ(idx)
           pos == VoxelPos(idx)
       IN  IF all_visible(views, pos)
           THEN /\ thread_voxels' =
                      [thread_voxels EXCEPT ![t] = Append(@, <<pos[1], pos[3], -pos[2]>>)]
                /\ voxels' = set_voxel_color(set_voxel_active(voxels, xi, yi, zi, TRUE),
                                             xi, yi, zi, CARVE_COLOR)
                /\ gpu_data_dirty_' =
                      IF is_valid_coordinate(xi, yi, zi) THEN TRUE ELSE gpu_data_dirty_
                /\ volume_texture_dirty_' =
                      IF is_valid_coordinate(xi, yi, zi) THEN TRUE ELSE volume_texture_dirty_
                /\ writes' = writes \cup TaskWrites(t, idx, xi, yi, zi)
           ELSE UNCHANGED <<thread_voxels, voxels, gpu_data_dirty_,
                            volume_texture_dirty_, writes>>
    /\ cur' = [cur EXCEPT ![t] = cur[t] + 1]
    /\ UNCHANGED <<views, scene_pc, next_idx, stop, prev_voxels, camera_vars, app_vars, mask_vars, ui_vars, call_vars>>

\* the end of the parallel region, then volume_->initialize() (scene.cpp:200-203,
\* volume.cpp:71-81); thread_voxels and the schedule go out of scope
CreateVolumeEnd ==
    /\ scene_pc = "parallel"
    /\ next_idx >= total_voxels
    /\ \A t \in Threads : cur[t] = stop[t]
    /\ gpu_data_dirty_' = TRUE
    /\ thread_voxels' = NoThreadVoxels
    /\ writes' = {}
    /\ next_idx' = 0
    /\ cur' = [t \in Threads |-> 0]
    /\ stop' = [t \in Threads |-> 0]
    /\ scene_pc' = "carved"
    /\ UNCHANGED <<views, voxels, volume_texture_dirty_, prev_voxels, camera_vars, app_vars, mask_vars, ui_vars, call_vars>>

\* Scene::create_empty_volume (scene.cpp:121-139): every voxel of a new Volume
\* is set active, in the carve color; the iterations of its parallel loop store
\* the same values whatever the schedule
create_empty_volume ==
    LET dims == EmptyGridDims(VOLUME_BOX_LENGTH, VOLUME_VOXEL_SIZE)
        total == dims[1] * dims[2] * dims[3]
        F[n \in 0..total] ==
            IF n = 0 THEN [slot \in 1..total |-> DefaultVoxel]
            ELSE LET xi == LoopCoord(n - 1, dims[2], dims[3])[1]
                     yi == LoopCoord(n - 1, dims[2], dims[3])[2]
                     zi == LoopCoord(n - 1, dims[2], dims[3])[3]
                 IN  set_voxel_color(set_voxel_active(F[n - 1], xi, yi, zi, TRUE),
                                     xi, yi, zi, CARVE_COLOR)
    IN  F[total]

\* Scene::create_volume (scene.cpp:141-203) as one step: the grid the parallel
\* loop leaves, which is the same for every schedule
create_volume(vs) ==
    LET F[n \in 0..total_voxels] ==
            IF n = 0 THEN NewVolume
            ELSE LET idx == n - 1
                 IN  IF all_visible(vs, VoxelPos(idx))
                     THEN set_voxel_color(
                              set_voxel_active(F[n - 1], IdxX(idx), IdxY(idx), IdxZ(idx), TRUE),
                              IdxX(idx), IdxY(idx), IdxZ(idx), CARVE_COLOR)
                     ELSE F[n - 1]
    IN  F[total_voxels]

\* Scene::unload_project (scene.cpp:36-51), with create_empty_volume
UnloadProject ==
    /\ scene_pc \in {"constructed", "carved", "empty"}
    /\ voxels' = create_empty_volume
    /\ gpu_data_dirty_' = TRUE
    /\ volume_texture_dirty_' = TRUE
    /\ prev_voxels' = IF scene_pc = "carved" THEN voxels ELSE prev_voxels
    /\ scene_pc' = "empty"
    /\ UNCHANGED <<views, thread_voxels, next_idx, cur, stop, writes, camera_vars, app_vars, mask_vars, ui_vars, call_vars>>

\* project.hpp:10-12; the square size in tenths of a millimetre
CHESS_COLS == 7

CHESS_ROWS == 7

CHESS_SQUARE == 220

\* no project file: Project() (project.hpp:37-49)
NoJson ==
    [origin |-> "none", forced |-> FALSE, cols |-> CHESS_COLS, rows |-> CHESS_ROWS,
     square |-> CHESS_SQUARE, boards |-> <<>>]

Abs(n) == IF n < 0 THEN -n ELSE n

(***************************************************************************)
(* View geometry: Camera::calc_fov, glm::perspective and Camera::calc_proj *)
(* (camera.cpp:409-462).  Lengths are in pixels; an angle is kept as the   *)
(* tangent of its half and a matrix entry as a fraction, both reduced.     *)
(***************************************************************************)

\* VIEW_WIDTH, VIEW_HEIGHT (global.hpp:8-9)
VIEW_WIDTH == 1280

VIEW_HEIGHT == 720

\* DEFAULT_FOV (view.hpp:19), in degrees
DEFAULT_FOV == 60

\* DEFAULT_CAMERA_VIEW (overlay.hpp:18)
DEFAULT_CAMERA_VIEW == -1

\* the window sizes the framebuffer callback reports
Resolutions == {<<VIEW_WIDTH, VIEW_HEIGHT>>, <<800, 600>>}

RECURSIVE GCD(_, _)
\* the greatest common divisor of two naturals
GCD(a, b) == IF b = 0 THEN a ELSE GCD(b, a % b)

\* the fraction n / d in lowest terms, d >= 0; <<1, 0>> and <<-1, 0>> are the infinities
Frac(n, d) ==
    LET an == IF n < 0 THEN -n ELSE n
        g == GCD(an, d)
    IN  IF g = 0 THEN <<0, 0>> ELSE <<n \div g, d \div g>>

\* Camera::calc_fov: 2 * atan(view_width / (2 * focal_length)), kept as the
\* tangent of half the angle
calc_fov(focal_length, view_width) == Frac(view_width, 2 * focal_length)

\* glm::perspective(glm::radians(fovy), width / height, near, far): the
\* symmetric projection, fixed by fovy and the aspect ratio
perspective(fovy, width, height) ==
    [kind |-> "symmetric", fovy |-> fovy, aspect |-> Frac(width, height),
     m00 |-> <<0, 0>>, m11 |-> <<0, 0>>, m20 |-> <<0, 0>>, m21 |-> <<0, 0>>]

\* common_res (camera.cpp:426-428)
common_res ==
    <<<<640, 480>>, <<800, 600>>, <<1024, 768>>, <<1280, 720>>, <<1280, 960>>, <<1920, 1080>>>>

\* err of a resolution r (camera.cpp:436) as numerator and denominator; cx and
\* cy are multiples of 4 and every common resolution is a multiple of 8, so
\* the divisions by 8 are exact
ResErr(r, cx, cy) ==
    <<(Abs(2 * cx - r[1]) \div 8) * (r[2] \div 8) + (Abs(2 * cy - r[2]) \div 8) * (r[1] \div 8),
      (r[1] \div 8) * (r[2] \div 8)>>

\* the calibration resolution guessed from the principal point (camera.cpp:430-443):
\* <<calib_w, calib_h>>
GuessResolution(cx, cy) ==
    LET Best[k \in 0..Len(common_res)] ==
            IF k = 0 THEN [found |-> FALSE, res |-> <<2 * cx, 2 * cy>>, err |-> <<0, 1>>]
            ELSE LET r == common_res[k]
                     e == ResErr(r, cx, cy)
                     b == Best[k - 1]
                 IN  IF cx < r[1] /\ cy < r[2]
                        /\ (~b.found \/ e[1] * b.err[2] < b.err[1] * e[2])
                     THEN [found |-> TRUE, res |-> r, err |-> e]
                     ELSE b
    IN  Best[Len(common_res)].res

\* the off-axis projection of camera.cpp:419-461; near and far are always
\* DEFAULT_NEAR and DEFAULT_FAR.  scale = min(width / calib_w, height / calib_h)
\* is sn / sd.
off_axis(intrinsic, width, height) ==
    LET calib == GuessResolution(intrinsic.cx, intrinsic.cy)
        by_width == width * calib[2] <= height * calib[1]
        sn == IF by_width THEN width ELSE height
        sd == IF by_width THEN calib[1] ELSE calib[2]
    IN  [kind |-> "off_axis", fovy |-> 0, aspect |-> <<0, 0>>,
         m00 |-> Frac(2 * intrinsic.fx * sn, sd * width),
         m11 |-> Frac(2 * intrinsic.fy * sn, sd * height),
         m20 |-> Frac((calib[1] - 2 * intrinsic.cx) * sn, sd * width),
         m21 |-> Frac((2 * intrinsic.cy - calib[2]) * sn, sd * height)]

\* Camera::calc_proj (camera.cpp:413-462)
calc_proj(intrinsic, width, height) ==
    IF intrinsic.rows = 0 \/ intrinsic.cols = 0 \/ intrinsic.rows < 3 \/ intrinsic.cols < 3
    THEN perspective(DEFAULT_FOV, width, height)
    ELSE off_axis(intrinsic, width, height)

\* a cv::Mat holding an intrinsic matrix: its size and the four entries that
\* calc_proj reads; cv::Mat::zeros(3, 3, CV_64F) is View's default (view.hpp:60)
Intrinsic(rows, cols, fx, fy, cx, cy) ==
    [rows |-> rows, cols |-> cols, fx |-> fx, fy |-> fy, cx |-> cx, cy |-> cy]

\* Camera::freeform_view(eye) (camera.cpp:178-186).  An eye is the position it
\* started from (0: DEFAULT_EYE, k: the calibrated eye of view k) and whether
\* rotate or zoom has moved it since.
freeform_view(eye) ==
    [eye |-> eye, at |-> "DEFAULT_AT", fov |-> calc_fov(DEFAULT_FOV, VIEW_WIDTH),
     proj |-> perspective(DEFAULT_FOV, VIEW_WIDTH, VIEW_HEIGHT),
     intrinsic |-> Intrinsic(3, 3, 0, 0, 0, 0)]

DEFAULT_EYE == [of |-> 0, moved |-> FALSE]

\* view k of a loaded project as calibrate_view leaves it (camera.cpp:340-368)
StaticView(k, intrinsic) ==
    [eye |-> [of |-> k, moved |-> FALSE], at |-> "ahead",
     fov |-> calc_fov(intrinsic.fx, VIEW_WIDTH),
     proj |-> calc_proj(intrinsic, VIEW_WIDTH, VIEW_HEIGHT),
     intrinsic |-> intrinsic]

\* the seven show flags, by name
Flags == {"box", "frame", "floor", "checkers", "frustums", "volume", "background"}

\* Renderer::Renderer (renderer.cpp:35-40, renderer.hpp:192)
RendererFlags == [f \in Flags |-> f \notin {"volume", "background"}]

\* Overlay's member initialisers (overlay.hpp:192-203)
OverlayFlags == [f \in Flags |-> f \notin {"volume", "background"}]

\* std::make_shared<Project>() as the camera and the overlay see it
NoProject == [views |-> <<>>, initialized |-> FALSE]

\* no frame drawn yet
NoFrame == [drawn |-> FALSE, window |-> <<VIEW_WIDTH, VIEW_HEIGHT>>, view |-> freeform_view(DEFAULT_EYE)]

\* Renderer, Overlay, Input and Camera as constructed (app.cpp:47-54)
UiIdle ==
    /\ show = RendererFlags
    /\ checks = OverlayFlags
    /\ loaded = NoProject
    /\ current_view_index_ = -1
    /\ freeform_view_ = freeform_view(DEFAULT_EYE)
    /\ active_camera_view_ = DEFAULT_CAMERA_VIEW
    /\ window = <<VIEW_WIDTH, VIEW_HEIGHT>>
    /\ frame = NoFrame
    /\ lmb_down_ = FALSE
    /\ rmb_down_ = FALSE
    /\ mouse = <<0, 0>>

\* no call in progress
CallIdle ==
    /\ args = <<>>
    /\ result = <<>>
    /\ call_pc = "idle"

\* no component holds a project
NoHolds == [camera |-> "none", scene |-> "none", renderer |-> "none", overlay |-> "none"]

\* no application around the scene or the camera
AppIdle ==
    /\ app_pc = "running"
    /\ json = NoJson
    /\ holds = NoHolds
    /\ calls = {}

\* calc_mask is not running
MaskIdle ==
    /\ fg_img = <<>>
    /\ bg_img = <<>>
    /\ mask_pre = <<>>
    /\ mask_out = <<>>
    /\ mask_pc = "idle"

\* no project at the camera
CameraIdle ==
    /\ project = [views |-> <<>>, needs_calibration |-> FALSE,
                  empty |-> TRUE, initialized |-> FALSE]
    /\ files = <<>>
    /\ cam_pc = "idle"
    /\ images = <<>>
    /\ preview_i = 0
    /\ key = 0
    /\ error = "none"
    /\ before = [views |-> <<>>, files |-> <<>>, needs_calibration |-> FALSE]

\* Scene() (scene.hpp:31-35): volume_ is null
SceneConstructed ==
    /\ scene_pc = "constructed"
    /\ voxels = <<>>
    /\ gpu_data_dirty_ = FALSE
    /\ volume_texture_dirty_ = FALSE
    /\ thread_voxels = NoThreadVoxels
    /\ next_idx = 0
    /\ cur = [t \in Threads |-> 0]
    /\ stop = [t \in Threads |-> 0]
    /\ writes = {}
    /\ prev_voxels = <<>>

Init ==
    /\ views \in ViewLists
    /\ SceneConstructed
    /\ CameraIdle
    /\ AppIdle
    /\ MaskIdle
    /\ UiIdle
    /\ CallIdle

Next ==
    \/ CreateVolumeBegin
    \/ \E t \in Threads : OmpNextChunk(t)
    \/ \E t \in Threads : CarveVoxel(t)
    \/ CreateVolumeEnd
    \/ UnloadProject

Spec == Init /\ [][Next]_vars

(***************************************************************************)
(* Claims about the voxel carver, checked under Spec.                      *)
(***************************************************************************)

Slots == 1..(width_ * height_ * depth_)

Iterations == 0..(total_voxels - 1)

Carved == scene_pc = "carved"

\* the active flag of the voxel at grid index (xi, yi, zi)
ActiveAt(xi, yi, zi) == voxels[get_index(xi, yi, zi) + 1].active

\* the position create_volume gives the voxel at grid index (xi, yi, zi)
PosAt(xi, yi, zi) ==
    << -VOLUME_BOX_LENGTH + xi * VOLUME_VOXEL_SIZE,
       -VOLUME_BOX_LENGTH + yi * VOLUME_VOXEL_SIZE,
       zi * VOLUME_VOXEL_SIZE >>

\* the mask has pixels and all of them are on / off
EntirelyOn(mask) == ~MaskEmpty(mask) /\ \A i \in DOMAIN mask.data : mask.data[i] = MASK_ON

EntirelyOff(mask) == ~MaskEmpty(mask) /\ \A i \in DOMAIN mask.data : mask.data[i] = 0

\* the rounded projected pixel is outside the mask (the condition of scene.cpp:162)
OutOfImage(view, pos) ==
    \/ PixelX(view, pos) < 0
    \/ PixelX(view, pos) >= view.mask.cols
    \/ PixelY(view, pos) < 0
    \/ PixelY(view, pos) >= view.mask.rows

\* C1: once create_volume has completed, the voxel at every grid index
\* (xi, yi, zi) is active if and only if the visibility test succeeds for it in
\* every view of views.
C1_ActiveIffVisibleInEveryView ==
    Carved =>
        \A xi \in 0..(num_x - 1), yi \in 0..(num_y - 1), zi \in 0..(num_z - 1) :
            ActiveAt(xi, yi, zi)
                <=> (\A i \in 1..Len(views) : voxel_visible(views[i], PosAt(xi, yi, zi)))

\* a completed carve over at least one view that kept some voxels and carved others
C1_Witness ==
    /\ Carved
    /\ Len(views) >= 1
    /\ \E s \in Slots : voxels[s].active
    /\ \E s \in Slots : ~voxels[s].active

C3_OneViewOffNoneActive ==
    (Carved /\ \E i \in 1..Len(views) :
                  MaskEmpty(views[i].mask) \/ EntirelyOff(views[i].mask))
        => \A s \in Slots : ~voxels[s].active

\* a completed carve over one view masked entirely off and another view in
\* which every voxel is visible
C3_Witness ==
    /\ Carved
    /\ \E i, j \in 1..Len(views) :
          /\ EntirelyOff(views[i].mask)
          /\ \A idx \in Iterations : voxel_visible(views[j], VoxelPos(idx))

\* C4 as stated: if every view's mask is on at every pixel, every voxel is active.
C4_MasksOnAllActive ==
    (Carved /\ \A i \in 1..Len(views) : EntirelyOn(views[i].mask))
        => \A s \in Slots : voxels[s].active

\* C4 amended: if every view's mask is on at every pixel and every voxel's
\* projected pixel lies inside every view's image, every voxel is active.
C4_MasksOnInImageAllActive ==
    (/\ Carved
     /\ \A i \in 1..Len(views) :
           /\ EntirelyOn(views[i].mask)
           /\ \A idx \in Iterations : ~OutOfImage(views[i], VoxelPos(idx)))
        => \A s \in Slots : voxels[s].active

\* a completed carve over two views with masks entirely on and every voxel
\* inside both images
C4_Witness ==
    /\ Carved
    /\ Len(views) = 2
    /\ \A i \in 1..Len(views) :
          /\ EntirelyOn(views[i].mask)
          /\ \A idx \in Iterations : ~OutOfImage(views[i], VoxelPos(idx))

\* C5: a voxel whose rounded projected pixel has px < 0, px >= mask width,
\* py < 0 or py >= mask height in some view is not visible in that view,
\* whatever the mask holds, and is not active.
C5_OutOfImageNotVisible ==
    Carved =>
        \A idx \in Iterations : \A i \in 1..Len(views) :
            OutOfImage(views[i], VoxelPos(idx)) =>
                /\ ~voxel_visible(views[i], VoxelPos(idx))
                /\ ~ActiveAt(IdxX(idx), IdxY(idx), IdxZ(idx))

\* a completed carve in which a voxel projects outside the image of a view
\* whose mask is entirely on, while it is visible in every other view
C5_Witness ==
    /\ Carved
    /\ \E idx \in Iterations : \E i \in 1..Len(views) :
          /\ EntirelyOn(views[i].mask)
          /\ OutOfImage(views[i], VoxelPos(idx))
          /\ \A j \in 1..Len(views) : j # i => voxel_visible(views[j], VoxelPos(idx))

\* C6: for fixed views the grid create_volume produces (active flags and
\* colors) does not depend on which thread ran which iterations or on how the
\* threads interleaved: every completed carve leaves the grid the previous
\* completed carve of the same views left.
C6_CarveRepeatable ==
    (Carved /\ prev_voxels # <<>>) => voxels = prev_voxels

\* a second completed carve whose grid has both active and inactive voxels
C6_Witness ==
    /\ Carved
    /\ prev_voxels # <<>>
    /\ \E s \in Slots : voxels[s].active
    /\ \E s \in Slots : ~voxels[s].active

\* C7: inside the parallel region no location is stored to by iterations
\* running on two different threads (each iteration stores only to its own
\* voxel's active and color fields).
C7_NoLocationSharedByThreads ==
    \A w1, w2 \in writes : w1.thread # w2.thread => w1.loc # w2.loc

\* C20: in the empty-project state the volume has the grid dimensions of a
\* carved volume, derived from VOLUME_BOX_LENGTH and VOLUME_VOXEL_SIZE
\* (40 x 40 x 20 for 800 and 40), and every voxel is active with one uniform
\* color; after any sequence of loads and unloads the scene's volume has these
\* dimensions.
C20_EmptyVolumeSameGrid ==
    /\ voxels # <<>> => Len(voxels) = num_x * num_y * num_z
    /\ scene_pc = "empty" =>
          \A s \in DOMAIN voxels : voxels[s].active /\ voxels[s].color = voxels[1].color
    /\ EmptyGridDims(VOLUME_BOX_LENGTH, VOLUME_VOXEL_SIZE) = <<num_x, num_y, num_z>>
    /\ GridDims(800, 40) = <<40, 40, 20>>
    /\ EmptyGridDims(800, 40) = <<40, 40, 20>>

\* the scene unloaded after a carve that left inactive voxels
C20_Witness ==
    /\ scene_pc = "empty"
    /\ prev_voxels # <<>>
    /\ \E s \in DOMAIN prev_voxels : ~prev_voxels[s].active

(***************************************************************************)
(* Part 2: Camera::load_project and the chessboard calibration.            *)
(*                                                                         *)
(* A matrix is modelled by what it was computed from: Zeros is the default *)
(* of view.hpp:60-64, Stored(v) the value in the record file of view v as  *)
(* an earlier run wrote it, and the results of                             *)
(* cv::calibrateCamera name the images they were computed from.            *)
(***************************************************************************)

(***************************************************************************)
(* The numbers of a CV_64F matrix and their text in a record file.         *)
(*                                                                         *)
(* A double is modelled with a mantissa of MANT_BITS bits: the integer n   *)
(* stands for n / DoubleScale, and the doubles of the model are 0 and      *)
(* +/- m * 2^j with m a full mantissa.  cv::FileStorage writes an element  *)
(* that equals an int as that int ("%d.") and every other element with the *)
(* number of significant decimal digits that tells any two doubles apart   *)
(* (17 for the 53 bits of a double); reading takes the double nearest to   *)
(* the decimal, ties to the even mantissa.                                 *)
(***************************************************************************)

\* the mantissa width of the model's doubles (DBL_MANT_DIG is 53)
MANT_BITS == 5

\* the binades of the model's doubles: [1, 2), [2, 4), ...
NumBinades == 5

DoubleScale == 2 ^ (MANT_BITS - 1)

Mantissas == (2 ^ (MANT_BITS - 1))..(2 ^ MANT_BITS - 1)

ModelDoubles ==
    {0} \cup {sg * m * 2 ^ j : sg \in {-1, 1}, m \in Mantissas, j \in 0..(NumBinades - 1)}


\* the least digit count d with 10^(d-1) > 2^MANT_BITS, as DBL_DECIMAL_DIG is
\* for a double
DECIMAL_DIG == CHOOSE d \in 1..10 :
    /\ 10 ^ (d - 1) > 2 ^ MANT_BITS
    /\ \A c \in 1..(d - 1) : ~(10 ^ (c - 1) > 2 ^ MANT_BITS)

\* x with 10^x <= n / DoubleScale < 10^(x+1), for n / DoubleScale >= 1
DecimalExponent(n) ==
    CHOOSE x \in 0..9 : 10 ^ x * DoubleScale <= n /\ n < 10 ^ (x + 1) * DoubleScale

\* n / d rounded to the nearest integer, ties to even, as printf rounds
RoundHalfEven(n, d) ==
    LET q == n \div d
        r == n % d
    IN  IF 2 * r < d THEN q
        ELSE IF 2 * r > d THEN q + 1
        ELSE IF q % 2 = 0 THEN q ELSE q + 1

\* the decimal with digits significant digits nearest to |n| / DoubleScale:
\* [digits, scale] stands for digits / 10^scale
FormatDigits(n, digits) ==
    LET a == Abs(n)
        x == DecimalExponent(a)
        sc == digits - 1 - x
    IN  IF sc >= 0
        THEN [neg |-> n < 0, digits |-> RoundHalfEven(a * 10 ^ sc, DoubleScale), scale |-> sc]
        ELSE [neg |-> n < 0, digits |-> RoundHalfEven(a, DoubleScale * 10 ^ (-sc)) * 10 ^ (-sc),
              scale |-> 0]

\* doubleToString with one significant digit too few
doubleToStringShort(n) ==
    IF n % DoubleScale = 0
    THEN [neg |-> n < 0, digits |-> Abs(n) \div DoubleScale, scale |-> 0]
    ELSE FormatDigits(n, DECIMAL_DIG - 1)

\* the text cv::FileStorage writes for one element of a CV_64F matrix
doubleToString(n) ==
    IF n % DoubleScale = 0
    THEN [neg |-> n < 0, digits |-> Abs(n) \div DoubleScale, scale |-> 0]
    ELSE FormatDigits(n, DECIMAL_DIG)

\* strtod: the double nearest to the decimal digits / 10^scale, which is the
\* decimal rounded to a multiple of the spacing 2^j of its binade, ties to the
\* even mantissa, with the sign of the text
strtod(text) ==
    LET p == 10 ^ text.scale
        f == IF text.digits = 0 THEN 0
             ELSE LET j == CHOOSE k \in 0..NumBinades :
                               2 ^ k * p <= text.digits /\ text.digits < 2 ^ (k + 1) * p
                  IN  RoundHalfEven(text.digits * DoubleScale, p * 2 ^ j) * 2 ^ j
    IN  IF text.neg THEN -f ELSE f

\* the calibration fields of View (view.hpp:60-64)
CalibFields == {"intrinsic", "distortion", "rvec", "tvec"}

Calibration(view) == [f \in CalibFields |-> view[f]]

\* a matrix the model gives no numbers to: kind and of say what it was computed
\* from, and data holds the elements where the model gives them numbers
Zeros == [kind |-> "zeros", of |-> <<>>, data |-> <<>>]

Stored(v) == [kind |-> "stored", of |-> <<v>>, data |-> <<>>]

\* a CV_64F matrix with the elements ns
Given(ns) == [kind |-> "given", of |-> <<>>, data |-> ns]

\* View's default member initialisers (view.hpp:60-64)
DefaultView(board) ==
    [bg_has_board |-> board, intrinsic |-> Zeros, distortion |-> Zeros,
     rvec |-> Zeros, tvec |-> Zeros, tvec_proj |-> Zeros]

\* no file at the view's cb_path
AbsentRecord ==
    [exists |-> FALSE, opens |-> FALSE, parses |-> FALSE,
     camera_matrix |-> Zeros, dist_coeffs |-> Zeros, rvec |-> Zeros, tvec |-> Zeros]

\* something at the view's cb_path that is not a regular file or cannot be opened
UnopenableRecord ==
    [exists |-> TRUE, opens |-> FALSE, parses |-> FALSE,
     camera_matrix |-> Zeros, dist_coeffs |-> Zeros, rvec |-> Zeros, tvec |-> Zeros]

\* a regular file at the view's cb_path whose content cannot be parsed
CorruptRecord ==
    [exists |-> TRUE, opens |-> TRUE, parses |-> FALSE,
     camera_matrix |-> Zeros, dist_coeffs |-> Zeros, rvec |-> Zeros, tvec |-> Zeros]

\* the record file of view v as an earlier run wrote it (camera.cpp:306-309)
StoredRecord(v) ==
    [exists |-> TRUE, opens |-> TRUE, parses |-> TRUE,
     camera_matrix |-> Stored(v), dist_coeffs |-> Stored(v),
     rvec |-> Stored(v), tvec |-> Stored(v)]

\* file_storage << name << mat with the elements written one digit short
WriteMatShort(m) == [m EXCEPT !.data = [i \in DOMAIN m.data |-> doubleToStringShort(m.data[i])]]

\* file_storage << name << mat (camera.cpp:306-309): each element as text
WriteMat(m) == [m EXCEPT !.data = [i \in DOMAIN m.data |-> doubleToString(m.data[i])]]

\* file_storage[name] >> mat (camera.cpp:294-297): each element parsed
ReadMat(t) == [t EXCEPT !.data = [i \in DOMAIN t.data |-> strtod(t.data[i])]]

\* the loop of camera.cpp:207-222: the views, in index order, in whose
\* background image cv::findChessboardCorners finds the board
DetectedViews(vs) ==
    LET F[n \in 0..Len(vs)] ==
            IF n = 0 THEN <<>>
            ELSE IF vs[n].bg_has_board THEN Append(F[n - 1], n) ELSE F[n - 1]
    IN  F[Len(vs)]

\* the test made against the wrong key code (Enter)
IsEscapeWrongKey(k) == k = 13

\* key == 27 (camera.cpp:246)
IsEscape(k) == k = KEY_ESC

\* the threshold at one half instead of three quarters
NotEnoughDetectionsHalf(n_images, n_views) == 2 * n_images < n_views

\* images.size() < project_->views.size() * 0.75 (camera.cpp:252); 0.75 and the
\* products are exact in double, so the comparison is 4 * images < 3 * views
NotEnoughDetections(n_images, n_views) == 4 * n_images < 3 * n_views

\* cv::calibrateCamera (camera.cpp:257-262): one camera matrix and one
\* distortion vector from all the images, and rvecs[i], tvecs[i] from image i
CalibrateCamera(imgs) ==
    [camera_matrix |-> [kind |-> "camera_matrix", of |-> imgs, data |-> <<>>],
     distortion_coeffs |-> [kind |-> "distortion_coeffs", of |-> imgs, data |-> <<>>],
     rvecs |-> [i \in 1..Len(imgs) |-> [kind |-> "rvec", of |-> <<imgs[i]>>, data |-> <<>>]],
     tvecs |-> [i \in 1..Len(imgs) |-> [kind |-> "tvec", of |-> <<imgs[i]>>, data |-> <<>>]]]

\* the loop of camera.cpp:265-270: project_->views[i] takes result i
SaveResults(vs, imgs) ==
    LET r == CalibrateCamera(imgs)
    IN  [v \in 1..Len(vs) |->
            IF v <= Len(imgs)
            THEN [vs[v] EXCEPT !.intrinsic = r.camera_matrix,
                               !.distortion = r.distortion_coeffs,
                               !.rvec = r.rvecs[v],
                               !.tvec = r.tvecs[v]]
            ELSE vs[v]]

\* Camera::write_calibration (camera.cpp:303-312) on the files fs: a
\* FileStorage that cannot be opened for writing ignores what is streamed to it
write_calibration(vs, fs) ==
    [v \in 1..Len(vs) |->
        IF fs[v].exists /\ ~fs[v].opens THEN fs[v]
        ELSE [exists |-> TRUE, opens |-> TRUE, parses |-> TRUE,
              camera_matrix |-> WriteMat(vs[v].intrinsic),
              dist_coeffs |-> WriteMat(vs[v].distortion),
              rvec |-> WriteMat(vs[v].rvec),
              tvec |-> WriteMat(vs[v].tvec)]]

\* the views a FileStorage opened for reading gives values to: the file exists
\* (camera.cpp:282) and isOpened() holds (camera.cpp:288)
Readable(f) == f.exists /\ f.opens /\ f.parses

\* Camera::read_calibration (camera.cpp:273-301): a view whose file is missing
\* or does not open is skipped
read_calibration(vs, fs) ==
    [v \in 1..Len(vs) |->
        IF ~Readable(fs[v]) THEN vs[v]
        ELSE [vs[v] EXCEPT !.intrinsic = ReadMat(fs[v].camera_matrix),
                           !.distortion = ReadMat(fs[v].dist_coeffs),
                           !.rvec = ReadMat(fs[v].rvec),
                           !.tvec = ReadMat(fs[v].tvec)]]

\* a regular file that opens and whose content the FileStorage parser rejects
IsCorrupt(f) == f.exists /\ f.opens /\ ~f.parses

\* the first view, in the order of the loop of camera.cpp:276, whose file is corrupt
FirstCorrupt(fs) ==
    CHOOSE v \in 1..Len(fs) : IsCorrupt(fs[v]) /\ \A u \in 1..(v - 1) : ~IsCorrupt(fs[u])

\* read_calibration left by the cv::Exception of the FileStorage constructor
\* (camera.cpp:287) at view k: the views before k have been read
read_calibration_until(vs, fs, k) ==
    LET r == read_calibration(vs, fs)
    IN  [v \in 1..Len(vs) |-> IF v < k THEN r[v] ELSE vs[v]]

\* Camera::calibrate_view (camera.cpp:314-369), the calibration data: the four
\* matrices are already CV_64F and stay as they are, and
\* tvec_proj = -R * (-R^T * tvec) = tvec.  The display geometry and the mask it
\* derives are functions of these fields and of the images.
calibrate_view(view) == [view EXCEPT !.tvec_proj = view.tvec]

\* the loop of camera.cpp:62-64 and the flags of camera.cpp:67-69
FinishLoad(p, vs) ==
    [p EXCEPT !.views = [v \in 1..Len(vs) |-> calibrate_view(vs[v])],
              !.empty = FALSE,
              !.initialized = TRUE,
              !.needs_calibration = FALSE]

\* Camera::load_project with needs_calibration set (camera.cpp:50-54), and
\* run_calibration up to the first preview (camera.cpp:188-224)
BeginCalibration ==
    /\ cam_pc = "idle"
    /\ project.needs_calibration
    /\ images' = DetectedViews(project.views)
    /\ preview_i' = 0
    /\ cam_pc' = "preview"
    /\ holds' = [holds EXCEPT !.camera = "cur"]
    /\ calls' = calls \cup {"run_calibration"}
    /\ UNCHANGED <<project, files, key, error, before, app_pc, json, scene_vars, mask_vars, ui_vars, call_vars>>

\* one preview the operator lets pass (camera.cpp:225-249)
PreviewContinue ==
    /\ cam_pc = "preview"
    /\ preview_i < Len(images)
    /\ \E k \in Keys :
          /\ ~IsEscape(k)
          /\ key' = k
    /\ preview_i' = preview_i + 1
    /\ UNCHANGED <<project, files, cam_pc, images, error, before, app_vars,
                   scene_vars, mask_vars, ui_vars, call_vars>>

\* one preview the operator cancels: std::runtime_error (camera.cpp:246-248)
\* leaves run_calibration and load_project
PreviewAbort ==
    /\ cam_pc = "preview"
    /\ preview_i < Len(images)
    /\ \E k \in Keys :
          /\ IsEscape(k)
          /\ key' = k
    /\ error' = "aborted"
    /\ cam_pc' = "failed"
    /\ UNCHANGED <<project, files, images, preview_i, before, app_vars,
                   scene_vars, mask_vars, ui_vars, call_vars>>

\* the throw of camera.cpp:252-254, after the last preview
DetectionFailure ==
    /\ cam_pc = "preview"
    /\ preview_i = Len(images)
    /\ NotEnoughDetections(Len(images), Len(project.views))
    /\ error' = "not_enough_chessboards"
    /\ cam_pc' = "failed"
    /\ UNCHANGED <<project, files, images, preview_i, key, before, app_vars,
                   scene_vars, mask_vars, ui_vars, call_vars>>

\* the rest of run_calibration (camera.cpp:256-271), then write_calibration and
\* the rest of load_project (camera.cpp:55-69)
FinishCalibration ==
    /\ cam_pc = "preview"
    /\ preview_i = Len(images)
    /\ ~NotEnoughDetections(Len(images), Len(project.views))
    /\ LET saved == SaveResults(project.views, images)
       IN  /\ files' = write_calibration(saved, files)
           /\ project' = FinishLoad(project, saved)
    /\ cam_pc' = "loaded"
    /\ calls' = calls \cup {"write_calibration"}
    /\ UNCHANGED <<images, preview_i, key, error, before, app_pc, json, holds,
                   scene_vars, mask_vars, ui_vars, call_vars>>

\* Camera::load_project with needs_calibration clear: read_calibration and the
\* rest of load_project (camera.cpp:57-69)
LoadCalibration ==
    /\ cam_pc = "idle"
    /\ ~project.needs_calibration
    /\ project' = FinishLoad(project, read_calibration(project.views, files))
    /\ cam_pc' = "loaded"
    /\ holds' = [holds EXCEPT !.camera = "cur"]
    /\ calls' = calls \cup {"read_calibration"}
    /\ UNCHANGED <<files, images, preview_i, key, error, before, app_pc, json,
                   scene_vars, mask_vars, ui_vars, call_vars>>

\* Camera::load_project with needs_calibration clear and a corrupt record file:
\* whether the FileStorage constructor (camera.cpp:287) reports the parse error
\* by isOpened() (LoadCalibration) or by a cv::Exception (this action) is the
\* library's choice; the exception leaves read_calibration and load_project
LoadCalibrationThrows ==
    /\ cam_pc = "idle"
    /\ ~project.needs_calibration
    /\ \E v \in 1..Len(files) : IsCorrupt(files[v])
    /\ project' = [project EXCEPT
                     !.views = read_calibration_until(project.views, files, FirstCorrupt(files))]
    /\ error' = "cv_exception"
    /\ cam_pc' = "failed"
    /\ holds' = [holds EXCEPT !.camera = "cur"]
    /\ calls' = calls \cup {"read_calibration"}
    /\ UNCHANGED <<files, images, preview_i, key, before, app_pc, json,
                   scene_vars, mask_vars, ui_vars, call_vars>>

\* App::load_project as far as it is from the camera's side: a project file with
\* the default chessboard, opened at startup
CameraJson(boards, forced) ==
    [origin |-> "startup", forced |-> forced, cols |-> CHESS_COLS, rows |-> CHESS_ROWS,
     square |-> CHESS_SQUARE, boards |-> boards]

\* the test of app.cpp:165 for one view
CannotOpen(f) == ~f.exists \/ ~f.opens

\* needs_calibration with the caller's request dropped
NeedsCalibrationUnforced(forced, fs) == \E v \in 1..Len(fs) : CannotOpen(fs[v])

\* project->needs_calibration after the loop of app.cpp:128-170
NeedsCalibration(forced, fs) == forced \/ \E v \in 1..Len(fs) : CannotOpen(fs[v])

\* the projects handed to Camera::load_project: App::load_project refuses a
\* project without views (app.cpp:122-125) and builds each View from its default
\* member initialisers (app.cpp:141)
ProjectViewLists ==
    UNION {{[v \in 1..n |-> DefaultView(board[v])] : board \in [1..n -> BOOLEAN]} :
           n \in 1..MaxProjectViews}

CalibrationInit ==
    /\ \E vs \in ProjectViewLists, forced \in BOOLEAN :
          /\ \E there \in [1..Len(vs) -> BOOLEAN] :
                files = [v \in 1..Len(vs) |->
                            IF there[v] THEN StoredRecord(v) ELSE AbsentRecord]
          /\ project = [views |-> vs, needs_calibration |-> NeedsCalibration(forced, files),
                        empty |-> FALSE, initialized |-> FALSE]
          /\ before = [views |-> vs, files |-> files,
                       needs_calibration |-> project.needs_calibration]
          /\ json = CameraJson([v \in 1..Len(vs) |-> vs[v].bg_has_board], forced)
    /\ cam_pc = "idle"
    /\ images = <<>>
    /\ preview_i = 0
    /\ key = 0
    /\ error = "none"
    /\ app_pc = "load"
    /\ holds = NoHolds
    /\ calls = {"camera"}
    /\ views = <<>>
    /\ SceneConstructed
    /\ MaskIdle
    /\ UiIdle
    /\ CallIdle

CalibrationNext ==
    \/ BeginCalibration
    \/ PreviewContinue
    \/ PreviewAbort
    \/ DetectionFailure
    \/ FinishCalibration
    \/ LoadCalibration

SpecCalibration == CalibrationInit /\ [][CalibrationNext]_vars

(***************************************************************************)
(* Claims about the calibration, checked under SpecCalibration.            *)
(***************************************************************************)

\* the views in whose background image the chessboard is detected
BoardViews == {v \in 1..Len(before.views) : before.views[v].bg_has_board}

\* detection succeeds in fewer than 75% of the project's views
FewDetections == 4 * Cardinality(BoardViews) < 3 * Len(before.views)

\* load_project has returned or thrown
LoadEnded == cam_pc \in {"loaded", "failed"}

\* no view's intrinsic, distortion, rvec or tvec differs from what it was
CalibrationUnchanged ==
    \A v \in 1..Len(before.views) :
        Calibration(project.views[v]) = Calibration(before.views[v])

\* no record file was written
FilesUnchanged == files = before.files

\* C8 as stated: if detection succeeds in fewer than 75% of the views, calibration
\* fails with the detection-failure error, no view's calibration fields are
\* changed and no record file is written.
C8_FewDetectionsFailDetection ==
    (before.needs_calibration /\ FewDetections /\ LoadEnded) =>
        /\ cam_pc = "failed"
        /\ error = "not_enough_chessboards"
        /\ CalibrationUnchanged
        /\ FilesUnchanged

\* C8 amended: if detection succeeds in fewer than 75% of the views, calibration
\* fails, with the detection-failure error when the operator let every preview
\* pass and with the user-abort error when the operator cancelled one; no view's
\* calibration fields are changed and no record file is written.
C8_FewDetectionsFail ==
    (before.needs_calibration /\ FewDetections /\ LoadEnded) =>
        /\ cam_pc = "failed"
        /\ error = IF key = KEY_ESC THEN "aborted" ELSE "not_enough_chessboards"
        /\ CalibrationUnchanged
        /\ FilesUnchanged

\* a run that previewed at least one detected board, was not cancelled and
\* failed for want of detections
C8_Witness ==
    /\ cam_pc = "failed"
    /\ error = "not_enough_chessboards"
    /\ FewDetections
    /\ Len(images) >= 1
    /\ key \in Keys \ {KEY_ESC}

\* C9: once the operator has pressed ESC at a preview, calibration has failed
\* with the abort error, no view's calibration fields have been changed and no
\* record file has been written, whichever preview it was.
C9_AbortCommitsNothing ==
    key = KEY_ESC =>
        /\ cam_pc = "failed"
        /\ error = "aborted"
        /\ CalibrationUnchanged
        /\ FilesUnchanged

\* a run with enough detections cancelled at a preview after the first
C9_Witness ==
    /\ key = KEY_ESC
    /\ preview_i >= 1
    /\ ~FewDetections
    /\ error = "aborted"

MaxRecordViews == 2

\* a view as run_calibration leaves it, with the elements a and b
CalibratedView(a, b) ==
    [bg_has_board |-> TRUE, intrinsic |-> Given(<<a, b>>), distortion |-> Given(<<b>>),
     rvec |-> Given(<<-a>>), tvec |-> Given(<<b, a>>), tvec_proj |-> Zeros]

\* Camera::write_calibration (camera.cpp:303-312)
WriteCalibration ==
    /\ cam_pc = "calibrated"
    /\ files' = write_calibration(project.views, files)
    /\ calls' = calls \cup {"write_calibration"}
    /\ cam_pc' = "written"
    /\ UNCHANGED <<project, images, preview_i, key, error, before, app_pc, json, holds,
                   scene_vars, mask_vars, ui_vars, call_vars>>

\* the next load of the project file: App::load_project builds every View from
\* its default member initialisers (app.cpp:141-169)
ReloadViews ==
    /\ cam_pc = "written"
    /\ project' = [project EXCEPT
                     !.views = [v \in 1..Len(project.views) |-> DefaultView(TRUE)]]
    /\ cam_pc' = "reloaded"
    /\ UNCHANGED <<files, images, preview_i, key, error, before, app_vars,
                   scene_vars, mask_vars, ui_vars, call_vars>>

\* Camera::read_calibration (camera.cpp:273-301)
ReadCalibration ==
    /\ cam_pc = "reloaded"
    /\ project' = [project EXCEPT !.views = read_calibration(project.views, files)]
    /\ calls' = calls \cup {"read_calibration"}
    /\ cam_pc' = "read"
    /\ UNCHANGED <<files, images, preview_i, key, error, before, app_pc, json, holds,
                   scene_vars, mask_vars, ui_vars, call_vars>>

RecordInit ==
    /\ \E n \in 1..MaxRecordViews, a \in ModelDoubles :
       \E b \in {0, -a}, there \in [1..n -> BOOLEAN] :
          /\ project = [views |-> [v \in 1..n |->
                                      IF v % 2 = 1 THEN CalibratedView(a, b)
                                      ELSE CalibratedView(b, a)],
                        needs_calibration |-> TRUE, empty |-> FALSE, initialized |-> FALSE]
          /\ files = [v \in 1..n |-> IF there[v] THEN StoredRecord(v) ELSE AbsentRecord]
          /\ before = [views |-> project.views, files |-> files, needs_calibration |-> TRUE]
          /\ json = CameraJson([v \in 1..n |-> TRUE], FALSE)
    /\ cam_pc = "calibrated"
    /\ images = <<>>
    /\ preview_i = 0
    /\ key = 0
    /\ error = "none"
    /\ app_pc = "load"
    /\ holds = [NoHolds EXCEPT !.camera = "cur"]
    /\ calls = {"camera", "run_calibration"}
    /\ views = <<>>
    /\ SceneConstructed
    /\ MaskIdle
    /\ UiIdle
    /\ CallIdle

RecordNext ==
    \/ WriteCalibration
    \/ ReloadViews
    \/ ReadCalibration

SpecRecords == RecordInit /\ [][RecordNext]_vars

\* the text of the element is not the element's exact decimal
InexactText(n) ==
    LET t == doubleToString(n)
    IN  Abs(n) * 10 ^ t.scale # t.digits * DoubleScale

\* C13: write_calibration followed by read_calibration on the same per-view
\* paths restores each view's camera matrix, distortion coefficients, rotation
\* vector and translation vector to exactly the values that were written.
C13_RecordRoundTrip ==
    cam_pc = "read" =>
        \A v \in 1..Len(before.views) :
            Calibration(project.views[v]) = Calibration(before.views[v])

\* two views read back whose matrices hold an element that the text rounds
C13_Witness ==
    /\ cam_pc = "read"
    /\ Len(project.views) = 2
    /\ \E v \in 1..2 : \E i \in DOMAIN before.views[v].intrinsic.data :
          InexactText(before.views[v].intrinsic.data[i])

(***************************************************************************)
(* Part 4: the application: App::App, App::load_project,                   *)
(* App::unload_project (source/app.cpp), the deferred File > Open and      *)
(* File > Close of Overlay::render (source/overlay.cpp) and main           *)
(* (source/main.cpp).                                                      *)
(*                                                                         *)
(* holds says, for each component, whether it holds no project ("none"),   *)
(* the project of the load in progress or last ended ("cur"), or a project *)
(* of an earlier load ("prev").                                            *)
(***************************************************************************)

\* the most views of a project file the application opens
MaxAppViews == 2

\* Project() (project.hpp:37-49)
EmptyProject ==
    [views |-> <<>>, needs_calibration |-> FALSE, empty |-> TRUE, initialized |-> FALSE]

\* the test of app.cpp:114-116 without the upper limit on the rows
InvalidChessboardNoRowLimit(cols, rows, square) ==
    \/ cols < 3 \/ rows < 3
    \/ cols > 20
    \/ square < 50 \/ square > 1000

\* the test of app.cpp:114-116; the square size in tenths of a millimetre
InvalidChessboard(cols, rows, square) ==
    \/ cols < 3 \/ rows < 3
    \/ cols > 20 \/ rows > 20
    \/ square < 50 \/ square > 1000

\* what can be at a view's cb_path when the project file is opened
FileKinds(v) == {AbsentRecord, UnopenableRecord, CorruptRecord, StoredRecord(v)}

\* the chessboard blocks of the project files: the default one, the limits,
\* and one value outside each limit
ChessboardSet ==
    {<<CHESS_COLS, CHESS_ROWS, CHESS_SQUARE>>, <<3, 3, 50>>, <<20, 20, 1000>>,
     <<2, CHESS_ROWS, CHESS_SQUARE>>, <<21, CHESS_ROWS, CHESS_SQUARE>>,
     <<CHESS_COLS, 2, CHESS_SQUARE>>, <<CHESS_COLS, 21, CHESS_SQUARE>>,
     <<CHESS_COLS, CHESS_ROWS, 49>>, <<CHESS_COLS, CHESS_ROWS, 1001>>}

\* the project files the application is given, with the record files beside
\* them: every list of views under the default chessboard, and one view with
\* its record under each other chessboard
ProjectFiles ==
    UNION {{[cols |-> CHESS_COLS, rows |-> CHESS_ROWS, square |-> CHESS_SQUARE,
             boards |-> b, files |-> f] :
               b \in [1..n -> BOOLEAN],
               f \in {g \in [1..n -> UNION {FileKinds(v) : v \in 1..n}] :
                         \A v \in 1..n : g[v] \in FileKinds(v)}} :
           n \in 1..MaxAppViews}
    \cup {[cols |-> c[1], rows |-> c[2], square |-> c[3],
           boards |-> <<TRUE>>, files |-> <<StoredRecord(1)>>] : c \in ChessboardSet}

\* the project file pf, opened at startup or through File > Open
JsonOf(pf, origin, forced) ==
    [origin |-> origin, forced |-> forced, cols |-> pf.cols, rows |-> pf.rows,
     square |-> pf.square, boards |-> pf.boards]

\* the masks and poses Camera::calibrate_view derives for n views from the
\* images and the calibration, which the model of the camera leaves open
SilhouetteViews(n) ==
    {[v \in 1..n |-> MakeView(AllOn, FarCamera)],
     [v \in 1..n |-> MakeView(Checker, NearCamera)]}

\* camera_->load_project(project) has thrown or returned
camera_returned_or_thrown == cam_pc \in {"loaded", "failed"}

\* camera_->load_project(project) has returned (app.cpp:173): the statements
\* after it run only then
camera_returned == cam_pc = "loaded"

\* a component that held the project of the last load holds an earlier
\* project once another load begins
Demoted(h) == [c \in DOMAIN h |-> IF h[c] = "cur" THEN "prev" ELSE h[c]]

\* App::unload_project (app.cpp:186-193): Scene::unload_project (scene.cpp:36-51)
\* and the unload_project of the renderer, the overlay and the camera
UnloadAll ==
    /\ project' = EmptyProject
    /\ holds' = NoHolds
    /\ voxels' = create_empty_volume
    /\ gpu_data_dirty_' = TRUE
    /\ volume_texture_dirty_' = TRUE
    /\ scene_pc' = "empty"
    /\ UNCHANGED <<views, thread_voxels, next_idx, cur, stop, writes, prev_voxels>>

\* App::load_project (app.cpp:85-173) for the project file j with the record
\* files fs, from its entry to the call of camera_->load_project
BeginLoad(j, fs) ==
    /\ json' = j
    /\ files' = fs
    /\ project' = [views |-> [v \in 1..Len(j.boards) |-> DefaultView(j.boards[v])],
                   needs_calibration |-> NeedsCalibration(j.forced, fs),
                   empty |-> FALSE, initialized |-> FALSE]
    /\ before' = [views |-> project'.views, files |-> fs,
                  needs_calibration |-> project'.needs_calibration]
    /\ cam_pc' = "idle"
    /\ images' = <<>>
    /\ preview_i' = 0
    /\ key' = 0
    /\ error' = "none"
    /\ calls' = {"camera"}
    /\ app_pc' = "load"

\* App::load_project for the project file j, left by the return of app.cpp:118
RefuseLoad(j, fs) ==
    /\ json' = j
    /\ files' = fs
    /\ before' = [views |-> <<>>, files |-> fs, needs_calibration |-> j.forced]
    /\ cam_pc' = "waiting"
    /\ images' = <<>>
    /\ preview_i' = 0
    /\ key' = 0
    /\ error' = "invalid_chessboard"
    /\ calls' = {}
    /\ app_pc' = "running"

\* App::App without a project (app.cpp:57-59)
StartEmpty ==
    /\ app_pc = "ctor"
    /\ json.origin = "none"
    /\ UnloadAll
    /\ app_pc' = "running"
    /\ UNCHANGED <<files, cam_pc, images, preview_i, key, error, before, json, calls,
                   mask_vars, ui_vars, call_vars>>

\* App::App with a project (app.cpp:57): load_project up to the camera
StartupLoad ==
    /\ app_pc = "ctor"
    /\ json.origin = "startup"
    /\ ~InvalidChessboard(json.cols, json.rows, json.square)
    /\ BeginLoad(json, files)
    /\ UNCHANGED <<holds, scene_vars, mask_vars, ui_vars, call_vars>>

\* App::App with a project that load_project refuses: unload_project (app.cpp:57-59)
StartupRefused ==
    /\ app_pc = "ctor"
    /\ json.origin = "startup"
    /\ InvalidChessboard(json.cols, json.rows, json.square)
    /\ RefuseLoad(json, files)
    /\ UnloadAll
    /\ UNCHANGED <<mask_vars, ui_vars, call_vars>>

\* File > Open (overlay.cpp:139-151): project_open_callback_ runs
\* App::load_project up to the camera
OpenLoad ==
    /\ app_pc = "running"
    /\ \E pf \in ProjectFiles :
          /\ ~InvalidChessboard(pf.cols, pf.rows, pf.square)
          /\ BeginLoad(JsonOf(pf, "open", FALSE), pf.files)
    /\ holds' = Demoted(holds)
    /\ UNCHANGED <<scene_vars, mask_vars, ui_vars, call_vars>>

\* File > Open of a project that load_project refuses: the callback drops the
\* result (app.cpp:51)
OpenRefused ==
    /\ app_pc = "running"
    /\ \E pf \in ProjectFiles :
          /\ InvalidChessboard(pf.cols, pf.rows, pf.square)
          /\ RefuseLoad(JsonOf(pf, "open", FALSE), pf.files)
    /\ holds' = Demoted(holds)
    /\ UNCHANGED <<project, scene_vars, mask_vars, ui_vars, call_vars>>

\* File > Close (overlay.cpp:154-158), enabled while the overlay's project is
\* initialized (overlay.cpp:232-236)
CloseProject ==
    /\ app_pc = "running"
    /\ holds.overlay # "none"
    /\ UnloadAll
    /\ UNCHANGED <<files, cam_pc, images, preview_i, key, error, before, app_pc, json,
                   calls, mask_vars, ui_vars, call_vars>>

\* the rest of App::load_project (app.cpp:174-183): the scene carves, the
\* renderer and the overlay take the project
LoadProjectFinish ==
    /\ app_pc = "load"
    /\ camera_returned
    /\ views' \in SilhouetteViews(Len(project.views))
    /\ voxels' = create_volume(views')
    /\ gpu_data_dirty_' = TRUE
    /\ volume_texture_dirty_' = TRUE
    /\ scene_pc' = "carved"
    /\ holds' = [c \in DOMAIN holds |-> "cur"]
    /\ calls' = calls \cup {"scene", "create_volume", "renderer", "overlay"}
    /\ project' = [project EXCEPT !.empty = FALSE, !.initialized = TRUE,
                                  !.needs_calibration = FALSE]
    /\ app_pc' = "running"
    /\ UNCHANGED <<files, cam_pc, images, preview_i, key, error, before, json,
                   thread_voxels, next_idx, cur, stop, writes, prev_voxels, mask_vars, ui_vars, call_vars>>

\* the exception of Camera::load_project leaves App::load_project, then App::App
\* or App::run, and is caught in main, which returns 1 (main.cpp:16-22)
LoadProjectThrows ==
    /\ app_pc = "load"
    /\ cam_pc = "failed"
    /\ app_pc' = "exited"
    /\ UNCHANGED <<camera_vars, json, holds, calls, scene_vars, mask_vars, ui_vars, call_vars>>

AppInit ==
    /\ app_pc = "ctor"
    /\ \/ /\ json = NoJson
          /\ files = <<>>
          /\ project = EmptyProject
       \/ \E pf \in ProjectFiles, forced \in BOOLEAN :
             /\ json = JsonOf(pf, "startup", forced)
             /\ files = pf.files
             /\ project = [EmptyProject EXCEPT !.empty = FALSE, !.needs_calibration = forced]
    /\ cam_pc = "waiting"
    /\ images = <<>>
    /\ preview_i = 0
    /\ key = 0
    /\ error = "none"
    /\ before = [views |-> <<>>, files |-> files, needs_calibration |-> FALSE]
    /\ holds = NoHolds
    /\ calls = {}
    /\ views = <<>>
    /\ SceneConstructed
    /\ MaskIdle
    /\ UiIdle
    /\ CallIdle

AppNext ==
    \/ StartEmpty
    \/ StartupLoad
    \/ StartupRefused
    \/ OpenLoad
    \/ OpenRefused
    \/ CloseProject
    \/ BeginCalibration
    \/ PreviewContinue
    \/ PreviewAbort
    \/ DetectionFailure
    \/ FinishCalibration
    \/ LoadCalibration
    \/ LoadCalibrationThrows
    \/ LoadProjectFinish
    \/ LoadProjectThrows

SpecApp == AppInit /\ [][AppNext]_vars

(***************************************************************************)
(* Claims about the application, checked under SpecApp.                    *)
(***************************************************************************)

\* some view's record file was absent, or could not be opened, when the load began
RecordMissing ==
    \E v \in 1..Len(before.files) : ~before.files[v].exists \/ ~before.files[v].opens

\* some view's record file was a regular file with unparseable content
RecordCorrupt == \E v \in 1..Len(before.files) : IsCorrupt(before.files[v])

\* Camera::load_project has chosen between run_calibration and read_calibration
CameraChose == cam_pc \in {"preview", "loaded", "failed"}

C12_CorruptRecordRecalibrated ==
    (cam_pc \in {"loaded", "failed"} /\ RecordCorrupt) =>
        /\ "run_calibration" \in calls
        /\ error # "cv_exception"

\* the chessboard block of the project file is outside the limits
OutsideLimits ==
    \/ json.cols \notin 3..20
    \/ json.rows \notin 3..20
    \/ json.square < 50
    \/ json.square > 1000

\* C14: App::load_project returns false before any calibration attempt, and
\* without calling load_project on the camera, the scene, the renderer or the
\* overlay, whenever chess_cols or chess_rows is outside [3, 20] or square_size
\* is outside [5, 100].
C14_InvalidChessboardRefused ==
    (json.origin # "none" /\ app_pc # "ctor" /\ OutsideLimits) =>
        /\ error = "invalid_chessboard"
        /\ app_pc = "running"
        /\ calls = {}
        /\ \A c \in DOMAIN holds : holds[c] # "cur"

\* File > Open of a project file with 21 rows, refused while the components
\* hold the project loaded before
C14_Witness ==
    /\ app_pc = "running"
    /\ json.origin = "open"
    /\ json.rows = 21
    /\ error = "invalid_chessboard"
    /\ holds.scene = "prev"

\* a load of a project file has ended in a configuration error, a detection
\* failure or a user abort
LoadFailed ==
    /\ app_pc \in {"running", "exited"}
    /\ json.origin \in {"startup", "open"}
    /\ error \in {"invalid_chessboard", "not_enough_chessboards", "aborted"}

\* the application runs with the scene, the camera, the renderer and the
\* overlay unloaded
NoProjectState ==
    /\ app_pc = "running"
    /\ holds = NoHolds
    /\ scene_pc = "empty"
    /\ project = EmptyProject

\* C15: after any project load that fails through a configuration error, a
\* detection failure or a user abort, at startup or through File > Open, the
\* application is in the no-project state and not in the state of a previously
\* loaded or partially loaded project.
C15_FailedLoadLeavesNoProject == LoadFailed => NoProjectState

\* Scene::create_volume starts in this step
CarvingStarts == "create_volume" \notin calls /\ "create_volume" \in calls'

\* Camera::load_project has returned, and if it calibrated, every preview was
\* confirmed with a key other than ESC
CalibrationContinued ==
    /\ cam_pc = "loaded"
    /\ error = "none"
    /\ "run_calibration" \in calls =>
          /\ preview_i = Len(images)
          /\ Len(images) > 0 => key # KEY_ESC

\* C16: in every project load, Scene::create_volume starts only after
\* calibration, every preview confirmation included, has resolved with
\* 'continue'; after an abort or a detection failure no carving is performed
\* for that project.
C16_CarvingAfterCalibration ==
    /\ [][CarvingStarts => CalibrationContinued]_vars
    /\ [](error \in {"aborted", "not_enough_chessboards"} =>
             ("create_volume" \notin calls /\ holds.scene # "cur"))

\* the scene has carved the project after a calibration with two previews
C16_Witness ==
    /\ "create_volume" \in calls
    /\ "run_calibration" \in calls
    /\ Len(images) = 2
    /\ holds.scene = "cur"

(***************************************************************************)
(* Part 5: Camera::calc_mask (camera.cpp:371-407).                         *)
(*                                                                         *)
(* An image is a row-major sequence of 8-bit BGR triples.  cv::cvtColor    *)
(* with COLOR_BGR2HSV gives V = max, S = 255 * (V - min) / V and H half    *)
(* the hue angle in degrees, each rounded to the nearest integer.          *)
(***************************************************************************)

\* the resolution of the photographs calc_mask is run on
PhotoCols == 6

PhotoRows == 5

PhotoPixels == 1..(PhotoRows * PhotoCols)

\* camera.cpp:17-19
THRESHOLD_H == 20

THRESHOLD_S == 20

THRESHOLD_V == 40

Max3(a, b, c) == IF a >= b /\ a >= c THEN a ELSE IF b >= c THEN b ELSE c

Min3(a, b, c) == IF a <= b /\ a <= c THEN a ELSE IF b <= c THEN b ELSE c

\* cv::cvtColor(img, hsv, cv::COLOR_BGR2HSV) for one 8-bit pixel (camera.cpp:379-380)
BGR2HSV(p) ==
    LET b == p[1]
        g == p[2]
        r == p[3]
        v == Max3(b, g, r)
        d == v - Min3(b, g, r)
        \* the hue angle is 60 * num / d + off degrees, and 360 more if negative
        num == IF v = r THEN g - b ELSE IF v = g THEN b - r ELSE r - g
        off == IF v = r THEN 0 ELSE IF v = g THEN 120 ELSE 240
        half == 30 * num + (off \div 2) * d
    IN  [h |-> IF d = 0 THEN 0
               ELSE RoundHalfEven(IF half < 0 THEN half + 180 * d ELSE half, d) % 180,
         s |-> IF v = 0 THEN 0 ELSE RoundHalfEven(255 * d, v),
         v |-> v]

\* cv::absdiff on one 8-bit element (camera.cpp:387-389)
absdiff(a, b) == IF a >= b THEN a - b ELSE b - a

\* cv::threshold with THRESH_BINARY_INV
threshold_inv(src, thresh, maxval) == IF src > thresh THEN 0 ELSE maxval

\* cv::threshold with the comparison made inclusive
threshold_inclusive(src, thresh, maxval) == IF src >= thresh THEN maxval ELSE 0

\* cv::threshold(..., cv::THRESH_BINARY) on one element (camera.cpp:393-395)
threshold(src, thresh, maxval) == IF src > thresh THEN maxval ELSE 0

\* cv::bitwise_and and cv::bitwise_or on elements that are 0 or 255
\* (camera.cpp:398-399)
bitwise_and(a, b) == IF a = MASK_ON /\ b = MASK_ON THEN MASK_ON ELSE 0

bitwise_or(a, b) == IF a = MASK_ON \/ b = MASK_ON THEN MASK_ON ELSE 0

\* the mask of camera.cpp:399 at one pixel
CombinedAt(fg, bg) ==
    LET f == BGR2HSV(fg)
        k == BGR2HSV(bg)
        mask_h == threshold(absdiff(f.h, k.h), THRESHOLD_H, MASK_ON)
        mask_s == threshold(absdiff(f.s, k.s), THRESHOLD_S, MASK_ON)
        mask_v == threshold(absdiff(f.v, k.v), THRESHOLD_V, MASK_ON)
    IN  bitwise_or(bitwise_and(mask_h, mask_s), mask_v)

\* cv::Mat() as the kernel of cv::erode: the 3 x 3 rectangle
RectKernel3 == {<<dr, dc>> : dr \in -1..1, dc \in -1..1}

\* a 3 x 3 cross
CrossKernel3 == {o \in RectKernel3 : o[1] = 0 \/ o[2] = 0}

\* cv::getStructuringElement(cv::MORPH_CROSS, cv::Size(5, 5)) (camera.cpp:403)
CrossKernel5 == {<<dr, dc>> \in (-2..2) \X (-2..2) : dr = 0 \/ dc = 0}

PhotoRow(i) == (i - 1) \div PhotoCols

PhotoCol(i) == (i - 1) % PhotoCols

\* the pixels of the image under the kernel anchored at pixel i; the border
\* value of cv::erode and cv::dilate leaves the pixels outside the image out
Under(i, kernel) ==
    {j \in PhotoPixels : <<PhotoRow(j) - PhotoRow(i), PhotoCol(j) - PhotoCol(i)>> \in kernel}

MinOf(S) == CHOOSE x \in S : \A y \in S : x <= y

MaxOf(S) == CHOOSE x \in S : \A y \in S : x >= y

\* cv::erode: the minimum under the kernel
erode(m, kernel) == [i \in PhotoPixels |-> MinOf({m[j] : j \in Under(i, kernel)})]

\* cv::dilate, one iteration: the maximum under the kernel
dilate(m, kernel) == [i \in PhotoPixels |-> MaxOf({m[j] : j \in Under(i, kernel)})]

\* the BGR colors of the photographs: white, red, two oranges (H = 20 and 21),
\* two pale reds (S = 20 and 21), a pale orange (H = 21, S = 20) and three greys
\* (V = 100, 140 and 141)
Palette ==
    {<<255, 255, 255>>, <<0, 0, 255>>, <<0, 170, 255>>, <<0, 179, 255>>,
     <<235, 235, 255>>, <<234, 234, 255>>, <<235, 249, 255>>,
     <<100, 100, 100>>, <<140, 140, 140>>, <<141, 141, 141>>}

\* the colors of the backgrounds: white, red and the darkest grey
Backgrounds == {<<255, 255, 255>>, <<0, 0, 255>>, <<100, 100, 100>>}

\* the pixels of the h x w rectangle whose top left corner is at row r, column c
Rect(r, c, h, w) ==
    {i \in PhotoPixels : /\ PhotoRow(i) >= r /\ PhotoRow(i) < r + h
                         /\ PhotoCol(i) >= c /\ PhotoCol(i) < c + w}

\* the shapes of the subject in front of the background
RectShapes == {<<1, 1>>, <<2, 2>>, <<1, 3>>, <<3, 3>>, <<3, 4>>}

Regions ==
    {Rect(r, c, s[1], s[2]) :
        r \in 0..(PhotoRows - 1), c \in 0..(PhotoCols - 1), s \in RectShapes}

\* calc_mask up to the combined mask (camera.cpp:371-399); mask_out is the
\* local mask, which the cleanup changes in place, and mask_pre keeps its value
\* at this point
CombineMasks ==
    /\ mask_pc = "called"
    /\ mask_pre' = [i \in PhotoPixels |-> CombinedAt(fg_img[i], bg_img[i])]
    /\ mask_out' = mask_pre'
    /\ mask_pc' = "combined"
    /\ UNCHANGED <<fg_img, bg_img, scene_vars, camera_vars, app_vars, ui_vars, call_vars>>

\* cv::erode(mask, mask, cv::Mat()) (camera.cpp:402 and :404); after the second
\* one calc_mask returns mask (camera.cpp:406)
ErodeMask ==
    /\ mask_pc \in {"combined", "dilated"}
    /\ mask_out' = erode(mask_out, RectKernel3)
    /\ mask_pc' = IF mask_pc = "combined" THEN "eroded" ELSE "returned"
    /\ UNCHANGED <<fg_img, bg_img, mask_pre, scene_vars, camera_vars, app_vars, ui_vars, call_vars>>

\* one of the two iterations of cv::dilate with the cross (camera.cpp:403)
DilateMask ==
    /\ mask_pc \in {"eroded", "dilated_once"}
    /\ mask_out' = dilate(mask_out, CrossKernel5)
    /\ mask_pc' = IF mask_pc = "eroded" THEN "dilated_once" ELSE "dilated"
    /\ UNCHANGED <<fg_img, bg_img, mask_pre, scene_vars, camera_vars, app_vars, ui_vars, call_vars>>

\* calc_mask(view.fg, view.bg) is called (camera.cpp:337) on a background of one
\* color and a foreground that shows a subject of one color in front of it
MaskInit ==
    /\ \E back \in Backgrounds, subject \in Palette, region \in Regions :
          /\ bg_img = [i \in PhotoPixels |-> back]
          /\ fg_img = [i \in PhotoPixels |-> IF i \in region THEN subject ELSE back]
    /\ mask_pre = <<>>
    /\ mask_out = <<>>
    /\ mask_pc = "called"
    /\ views = <<>>
    /\ SceneConstructed
    /\ CameraIdle
    /\ AppIdle
    /\ UiIdle
    /\ CallIdle

MaskNext ==
    \/ CombineMasks
    \/ ErodeMask
    \/ DilateMask

SpecMask == MaskInit /\ [][MaskNext]_vars

(***************************************************************************)
(* Claims about calc_mask, checked under SpecMask.                         *)
(***************************************************************************)

\* the differences between foreground and background in HSV at pixel i
DiffH(i) == absdiff(BGR2HSV(fg_img[i]).h, BGR2HSV(bg_img[i]).h)

DiffS(i) == absdiff(BGR2HSV(fg_img[i]).s, BGR2HSV(bg_img[i]).s)

DiffV(i) == absdiff(BGR2HSV(fg_img[i]).v, BGR2HSV(bg_img[i]).v)

\* the pixels at which the foreground differs from the background
DiffPixels == {i \in PhotoPixels : fg_img[i] # bg_img[i]}

\* the foreground differs from the background in the value channel only, and
\* by more than 40 wherever it differs
ValueOnly == \A i \in DiffPixels : DiffH(i) = 0 /\ DiffS(i) = 0 /\ DiffV(i) > 40

\* the pixels are a rectangle of at least 3 x 3 that does not touch the border
InteriorRect(S) ==
    \E r \in 1..(PhotoRows - 2), c \in 1..(PhotoCols - 2) :
    \E h \in 3..PhotoRows, w \in 3..PhotoCols :
        /\ r + h <= PhotoRows - 1
        /\ c + w <= PhotoCols - 1
        /\ S = Rect(r, c, h, w)

\* C17: for every pair of identical background and foreground images,
\* calc_mask returns a mask that is off (0) at every pixel.
C17_IdenticalImagesMaskOff ==
    (mask_pc = "returned" /\ fg_img = bg_img) =>
        \A i \in PhotoPixels : mask_out[i] = 0

\* calc_mask has returned for two identical red images
C17_Witness ==
    /\ mask_pc = "returned"
    /\ fg_img = bg_img
    /\ bg_img[1] = <<0, 0, 255>>

\* C18: before the morphological cleanup a mask pixel is 255 if and only if
\* (|dH| > 20 and |dS| > 20) or |dV| > 40, and 0 otherwise.
C18_CombinedMaskRule ==
    mask_pc # "called" =>
        \A i \in PhotoPixels :
            mask_pre[i] = IF (DiffH(i) > 20 /\ DiffS(i) > 20) \/ DiffV(i) > 40
                          THEN 255 ELSE 0

\* a combined mask with a pixel on by hue and saturation alone, beside one that is off
C18_Witness ==
    /\ mask_pc = "combined"
    /\ \E i \in PhotoPixels :
          DiffH(i) > 20 /\ DiffS(i) > 20 /\ DiffV(i) <= 40 /\ mask_pre[i] = 255
    /\ \E i \in PhotoPixels : mask_pre[i] = 0

\* C19: when the foreground differs from the background only in the value
\* channel, by more than 40, over a solid region of at least 3 x 3 pixels away
\* from the border, every pixel of the region is on in the final mask; a
\* difference confined to a single pixel leaves the final mask entirely off.
C19_CleanupKeepsRegionDropsPixel ==
    (mask_pc = "returned" /\ ValueOnly) =>
        /\ InteriorRect(DiffPixels) => \A i \in DiffPixels : mask_out[i] = 255
        /\ Cardinality(DiffPixels) = 1 => \A i \in PhotoPixels : mask_out[i] = 0

\* calc_mask has returned for a subject that is a 3 x 4 rectangle inside the
\* image, brighter or darker than the background by more than 40
C19_Witness ==
    /\ mask_pc = "returned"
    /\ ValueOnly
    /\ InteriorRect(DiffPixels)
    /\ Cardinality(DiffPixels) = 12

(***************************************************************************)
(* Part 6: Camera::calc_proj on its own and inside Camera::calibrate_view  *)
(* (camera.cpp:314-343, 413-462), for intrinsic matrices of every size a   *)
(* record file can hold.                                                   *)
(***************************************************************************)

\* the largest number of rows or columns of an intrinsic matrix
MaxMatDim == 4

\* the intrinsic matrices: every size up to MaxMatDim, an entry being 0 where
\* the matrix has no such entry
IntrinsicSet ==
    {Intrinsic(r, c,
               IF r >= 1 /\ c >= 1 THEN f ELSE 0,
               IF r >= 2 /\ c >= 2 THEN f ELSE 0,
               IF r >= 1 /\ c >= 3 THEN p[1] ELSE 0,
               IF r >= 2 /\ c >= 3 THEN p[2] ELSE 0) :
        r \in 0..MaxMatDim, c \in 0..MaxMatDim, f \in {800, 1000},
        p \in {<<320, 240>>, <<400, 300>>, <<640, 360>>, <<644, 364>>}}

\* view.intrinsic(cv::Range(0,2), cv::Range(0,1)) and (cv::Range(0,2),
\* cv::Range(2,3)) (camera.cpp:333-334): cv::Mat's range constructor throws
\* cv::Exception unless the ranges lie inside the matrix
RangesOutside(intrinsic) == intrinsic.rows < 2 \/ intrinsic.cols < 3

\* a direct call calc_proj(intrinsic, width, height)
CalcProj ==
    /\ call_pc = "calc_proj"
    /\ result' = calc_proj(args.intrinsic, args.width, args.height)
    /\ call_pc' = "returned"
    /\ UNCHANGED <<args, scene_vars, camera_vars, app_vars, mask_vars, ui_vars>>

\* Camera::calibrate_view up to camera.cpp:343 on a view whose intrinsic
\* matrix is large enough for the two sub-matrix extractions
CalibrateView ==
    /\ call_pc = "calibrate_view"
    /\ ~RangesOutside(args.intrinsic)
    /\ result' = calc_proj(args.intrinsic, VIEW_WIDTH, VIEW_HEIGHT)
    /\ call_pc' = "calibrated"
    /\ UNCHANGED <<args, scene_vars, camera_vars, app_vars, mask_vars, ui_vars>>

\* Camera::calibrate_view on a view whose intrinsic matrix is too small for
\* camera.cpp:333-334: cv::Exception leaves calibrate_view, Camera::load_project
\* and App::load_project, none of which catches it
CalibrateViewThrows ==
    /\ call_pc = "calibrate_view"
    /\ RangesOutside(args.intrinsic)
    /\ call_pc' = "cv_exception"
    /\ UNCHANGED <<args, result, scene_vars, camera_vars, app_vars, mask_vars, ui_vars>>

ProjInit ==
    /\ \E m \in IntrinsicSet, res \in Resolutions, pc \in {"calc_proj", "calibrate_view"} :
          /\ args = [intrinsic |-> m, width |-> res[1], height |-> res[2]]
          /\ call_pc = pc
          /\ pc = "calibrate_view" => res = <<VIEW_WIDTH, VIEW_HEIGHT>>
    /\ result = perspective(0, 1, 1)
    /\ views = <<>>
    /\ SceneConstructed
    /\ CameraIdle
    /\ AppIdle
    /\ MaskIdle
    /\ UiIdle

ProjNext ==
    \/ CalcProj
    \/ CalibrateView
    \/ CalibrateViewThrows

SpecProj == ProjInit /\ [][ProjNext]_vars

\* the intrinsic matrix is empty or has fewer than 3 rows or 3 columns
Degenerate(intrinsic) ==
    intrinsic.rows = 0 \/ intrinsic.cols = 0 \/ intrinsic.rows < 3 \/ intrinsic.cols < 3

\* C22: calc_proj never fails: for an empty or undersized intrinsic matrix it
\* returns the default symmetric perspective projection at the default field
\* of view, and only otherwise the off-axis projection; a degenerate intrinsic
\* matrix never makes the project load fail.
C22_DegenerateIntrinsicNeverFatal ==
    /\ call_pc \in {"returned", "calibrated"} =>
          /\ Degenerate(args.intrinsic) =>
                result = perspective(DEFAULT_FOV, args.width, args.height)
          /\ ~Degenerate(args.intrinsic) => result.kind = "off_axis"
    /\ Degenerate(args.intrinsic) => call_pc # "cv_exception"

(***************************************************************************)
(* Part 7: the voxel loop of create_volume and create_empty_volume taken   *)
(* on its own, for grids of every size up to MaxGridDim along each axis.   *)
(***************************************************************************)

\* the largest number of voxels along an axis
MaxGridDim == 3

\* one iteration of the loop (scene.cpp:180-198, 130-136): iteration idx is the
\* number of iterations done; the voxel it reaches and the storage slot that
\* set_voxel_active and set_voxel_color write, -1 when they return early
LoopIteration ==
    /\ call_pc = "loop"
    /\ Len(result) < args.num_x * args.num_y * args.num_z
    /\ LET c == LoopCoord(Len(result), args.num_y, args.num_z)
       IN  result' = Append(result,
               [coord |-> c,
                slot |-> IF ValidIn(args.num_x, args.num_y, args.num_z, c[1], c[2], c[3])
                         THEN IndexOf(args.num_x, args.num_y, c[1], c[2], c[3])
                         ELSE -1])
    /\ UNCHANGED <<args, call_pc, scene_vars, camera_vars, app_vars, mask_vars, ui_vars>>

\* the loop condition idx < total_voxels fails
LoopEnd ==
    /\ call_pc = "loop"
    /\ Len(result) = args.num_x * args.num_y * args.num_z
    /\ call_pc' = "done"
    /\ UNCHANGED <<args, result, scene_vars, camera_vars, app_vars, mask_vars, ui_vars>>

IndexInit ==
    /\ \E nx \in 1..MaxGridDim, ny \in 1..MaxGridDim, nz \in 1..MaxGridDim :
          args = [num_x |-> nx, num_y |-> ny, num_z |-> nz]
    /\ result = <<>>
    /\ call_pc = "loop"
    /\ views = <<>>
    /\ SceneConstructed
    /\ CameraIdle
    /\ AppIdle
    /\ MaskIdle
    /\ UiIdle

IndexNext ==
    \/ LoopIteration
    \/ LoopEnd

SpecIndex == IndexInit /\ [][IndexNext]_vars

\* C24: the flattened index range 0 .. num_x*num_y*num_z-1 maps one-to-one
\* onto the in-range grid coordinates, and get_index maps those coordinates
\* one-to-one onto the storage slots: every voxel is processed exactly once
\* and no two iterations write the same slot.
C24_LoopIndexBijection ==
    LET total == args.num_x * args.num_y * args.num_z
    IN  /\ \A i \in 1..Len(result) :
              /\ ValidIn(args.num_x, args.num_y, args.num_z,
                         result[i].coord[1], result[i].coord[2], result[i].coord[3])
              /\ result[i].slot \in 0..(total - 1)
        /\ \A i, j \in 1..Len(result) :
              i # j => result[i].coord # result[j].coord /\ result[i].slot # result[j].slot
        /\ call_pc = "done" =>
              /\ Len(result) = total
              /\ {result[i].slot : i \in 1..Len(result)} = 0..(total - 1)

\* the loop has ended on a grid whose three dimensions differ
C24_Witness ==
    /\ call_pc = "done"
    /\ args.num_x # args.num_y
    /\ args.num_y # args.num_z
    /\ args.num_x # args.num_z
    /\ Len(result) > 1

(***************************************************************************)
(* Part 8: Volume::fill_box taken on its own (volume.cpp:185-205).         *)
(***************************************************************************)

\* Volume::voxel_to_world (volume.cpp:314-323): OpenGL world coordinates of
\* the voxel at grid coordinates (x, y, z); the voxel size is even, so the
\* halves are whole
voxel_to_world(x, y, z) ==
    <<(2 * x - width_) * (VOLUME_VOXEL_SIZE \div 2),
      z * VOLUME_VOXEL_SIZE + VOLUME_VOXEL_SIZE \div 2,
      -(2 * y - height_) * (VOLUME_VOXEL_SIZE \div 2)>>

\* the test of volume.cpp:191-193: && binds tighter than ||
InFillTest(voxel_pos, min_pos, max_pos) ==
    \/ voxel_pos[1] >= min_pos[1] /\ voxel_pos[1] <= max_pos[1]
    \/ voxel_pos[2] >= min_pos[2] /\ voxel_pos[2] <= max_pos[2]
    \/ voxel_pos[3] >= min_pos[3] /\ voxel_pos[3] <= max_pos[3]

\* the grid coordinates stored at a slot (volume.cpp:58-63)
CoordOfSlot(slot) ==
    CHOOSE c \in (0..(width_ - 1)) \X (0..(height_ - 1)) \X (0..(depth_ - 1)) :
        get_index(c[1], c[2], c[3]) + 1 = slot

\* Volume::fill_box (volume.cpp:185-205) on the voxels vx
fill_box(vx, min_pos, max_pos, color) ==
    [slot \in DOMAIN vx |->
        LET c == CoordOfSlot(slot)
        IN  IF InFillTest(voxel_to_world(c[1], c[2], c[3]), min_pos, max_pos)
            THEN [vx[slot] EXCEPT !.active = TRUE, !.color = color, !.density = 10]
            ELSE vx[slot]]

\* the world coordinates the corners of a box are drawn from
CornerCoords == {-VOLUME_VOXEL_SIZE, 0, VOLUME_VOXEL_SIZE}

\* the color handed to fill_box, in tenths
FILL_COLOR == <<1, 2, 3, 10>>

\* a call volume.fill_box(min_pos, max_pos, color)
FillBox ==
    /\ call_pc = "fill_box"
    /\ result' = [voxels |-> fill_box(args.voxels, args.min_pos, args.max_pos, args.color),
                  gpu_data_dirty_ |-> TRUE, volume_texture_dirty_ |-> TRUE]
    /\ call_pc' = "filled"
    /\ UNCHANGED <<args, scene_vars, camera_vars, app_vars, mask_vars, ui_vars>>

FillInit ==
    /\ \E lo \in CornerCoords \X CornerCoords \X CornerCoords,
          hi \in CornerCoords \X CornerCoords \X CornerCoords,
          vx \in {NewVolume, create_empty_volume} :
          args = [voxels |-> vx, min_pos |-> lo, max_pos |-> hi, color |-> FILL_COLOR]
    /\ result = [voxels |-> <<>>, gpu_data_dirty_ |-> FALSE, volume_texture_dirty_ |-> FALSE]
    /\ call_pc = "fill_box"
    /\ views = <<>>
    /\ SceneConstructed
    /\ CameraIdle
    /\ AppIdle
    /\ MaskIdle
    /\ UiIdle

FillNext == FillBox

SpecFill == FillInit /\ [][FillNext]_vars

\* the world position lies between min_pos and max_pos on all three axes
InsideBox(pos, min_pos, max_pos) ==
    \A axis \in 1..3 : min_pos[axis] <= pos[axis] /\ pos[axis] <= max_pos[axis]

\* C23: fill_box activates, with the given color and density 1, exactly the
\* voxels whose world position lies between min_pos and max_pos on all three
\* axes, and leaves every voxel outside the box unchanged.
C23_FillBoxFillsTheBox ==
    call_pc = "filled" =>
        \A slot \in DOMAIN args.voxels :
            LET c == CoordOfSlot(slot)
            IN  IF InsideBox(voxel_to_world(c[1], c[2], c[3]), args.min_pos, args.max_pos)
                THEN /\ result.voxels[slot].active
                     /\ result.voxels[slot].color = args.color
                     /\ result.voxels[slot].density = 10
                ELSE result.voxels[slot] = args.voxels[slot]

(***************************************************************************)
(* Part 9: the user interface: Input's key, mouse and cursor handlers, the *)
(* overlay's buttons and checkboxes, the framebuffer-size callback, the    *)
(* frame loop, and what App::load_project and App::unload_project do to    *)
(* the renderer's flags, the overlay's state and the camera's view.        *)
(***************************************************************************)

\* the largest number of views of a project opened in the user interface
MaxUiViews == 2

\* the largest cursor coordinate
MaxCursor == 2

\* the width in bits of the model's size_t
SIZE_BITS == 8

\* static_cast<size_t>(i): the conversion of the usual arithmetic conversions
\* when an int meets a size_t
ToSizeT(i) == i % (2 ^ SIZE_BITS)

\* the integer division of C++, which truncates toward zero
TruncDiv(a, b) == IF a >= 0 THEN a \div b ELSE -((-a) \div b)

\* the views of a project of n views after Camera::load_project: each with
\* its own focal length and principal point
ProjectOf(n) ==
    [views |-> [k \in 1..n |->
                   StaticView(k, Intrinsic(3, 3, 800 + 100 * k, 800 + 100 * k, 640, 360))],
     initialized |-> TRUE]

\* Renderer::load_project (renderer.cpp:85-99)
renderer_load_project(s) ==
    [s EXCEPT !.box = TRUE, !.floor = TRUE, !.frame = TRUE, !.volume = TRUE,
              !.frustums = TRUE, !.background = FALSE]

\* Renderer::unload_project (renderer.cpp:101-118)
renderer_unload_project(s) ==
    [s EXCEPT !.box = TRUE, !.floor = TRUE, !.frame = TRUE, !.volume = FALSE,
              !.frustums = FALSE, !.background = FALSE]

\* Overlay::reset_ui_state (overlay.cpp:409-420), the flags
reset_ui_state(project_loaded) ==
    [f \in Flags |-> IF f = "volume" THEN project_loaded ELSE f # "background"]

\* sync_with_renderer copying the six model flags only
sync_with_renderer_models_only(c, s) ==
    [f \in Flags |-> IF f = "background" THEN c[f] ELSE s[f]]

\* Overlay::sync_with_renderer (overlay.cpp:177-188): the overlay's flags
\* after it, given its flags c and the renderer's s
sync_with_renderer(c, s) == [f \in Flags |-> s[f]]

\* Overlay::load_project (overlay.cpp:88-95) on the renderer's flags s:
\* the renderer's and the overlay's flags after it
overlay_load_project(s) ==
    LET toggled == IF ~s.volume THEN [s EXCEPT !.volume = TRUE] ELSE s
    IN  [show |-> toggled, checks |-> sync_with_renderer(reset_ui_state(TRUE), toggled)]

\* Overlay::unload_project (overlay.cpp:97-106)
overlay_unload_project(s) ==
    LET toggled == IF s.volume THEN [s EXCEPT !.volume = FALSE] ELSE s
    IN  [show |-> toggled, checks |-> sync_with_renderer(reset_ui_state(FALSE), toggled)]

\* Camera::set_view (camera.cpp:89-100): <<current_view_index_, freeform_view_>>
\* after it.  current_view_ is a reference bound to freeform_view_ for the
\* camera's whole life (camera.hpp:147, camera.cpp:42), so the assignment of
\* camera.cpp:92 assigns freeform_view_ to itself and that of camera.cpp:98
\* copies the static view into freeform_view_.
set_view(view_index, index, freeform, project_) ==
    IF view_index >= 0 /\ ToSizeT(view_index) < Len(project_.views)
    THEN <<view_index, project_.views[view_index + 1]>>
    ELSE <<index, freeform>>

\* Overlay::set_current_camera_view (overlay.cpp:108-113): active_camera_view_
\* after it
set_current_camera_view(view_index, active, project_) ==
    IF view_index >= 0 \/ ToSizeT(view_index) < Len(project_.views)
    THEN view_index
    ELSE active

\* the restoring of freeform mode at the head of rotate and zoom
\* (camera.cpp:108-112, 148-152): <<current_view_index_, freeform_view_>>
restore_freeform(index, freeform) ==
    IF index >= 0 THEN <<-1, freeform_view(freeform.eye)>> ELSE <<index, freeform>>

\* the eye after rotate or zoom has moved it (camera.cpp:139, 157)
Moved(view) == [view EXCEPT !.eye.moved = TRUE]

\* Camera::rotate (camera.cpp:102-140): <<current_view_index_, freeform_view_>>
rotate(x, y, index, freeform) ==
    IF x = 0 /\ y = 0 THEN <<index, freeform>>
    ELSE LET r == restore_freeform(index, freeform)
         IN  <<r[1], Moved(r[2])>>

\* Camera::zoom (camera.cpp:142-158)
zoom(delta, index, freeform) ==
    IF delta = 0 THEN <<index, freeform>>
    ELSE LET r == restore_freeform(index, freeform)
         IN  <<r[1], Moved(r[2])>>

\* the keys Input::on_key handles on a press
ViewKeys == {"1", "2", "3", "4"}
ToggleKeys == {"A", "B", "C", "F", "V"}

\* the flag a toggle key flips (input.cpp:52-77)
KeyFlag(k) ==
    CASE k = "B" -> "box"
      [] k = "A" -> "frame"
      [] k = "F" -> "floor"
      [] k = "C" -> "frustums"
      [] k = "V" -> "volume"

\* the view a view key asks for (input.cpp:84-102)
KeyView(k) ==
    CASE k = "1" -> 0
      [] k = "2" -> 1
      [] k = "3" -> 2
      [] k = "4" -> 3

\* the toggleable scene items of the overlay (overlay.cpp:38-45)
toggle_items_ == {"box", "frame", "floor", "checkers", "frustums", "volume"}

\* the variables no user-interface handler writes
rest_of_model == <<scene_vars, camera_vars, app_vars, mask_vars, call_vars>>

\* the user-interface effects of a successful App::load_project of a project
\* of n views (app.cpp:173-176): camera, renderer, overlay
LoadUi(n, s) ==
    LET p == ProjectOf(n)
        r == overlay_load_project(renderer_load_project(s))
    IN  [loaded |-> p,
         freeform |-> freeform_view(p.views[1].eye),
         index |-> -1,
         show |-> r.show,
         checks |-> r.checks,
         active |-> DEFAULT_CAMERA_VIEW]

\* the user-interface effects of App::unload_project (app.cpp:186-193):
\* renderer, overlay, camera
UnloadUi(s, freeform) ==
    LET r == overlay_unload_project(renderer_unload_project(s))
    IN  [loaded |-> NoProject,
         freeform |-> freeform,
         index |-> -1,
         show |-> r.show,
         checks |-> r.checks,
         active |-> DEFAULT_CAMERA_VIEW]

\* the six variables a load or an unload writes
TakeUi(u) ==
    /\ loaded' = u.loaded
    /\ freeform_view_' = u.freeform
    /\ current_view_index_' = u.index
    /\ show' = u.show
    /\ checks' = u.checks
    /\ active_camera_view_' = u.active

\* Input::on_key on a press of a toggle key (input.cpp:52-77)
KeyToggle ==
    \E k \in ToggleKeys :
       /\ show' = [show EXCEPT ![KeyFlag(k)] = ~@]
       /\ checks' = [checks EXCEPT ![KeyFlag(k)] = ~@]
       /\ UNCHANGED <<loaded, current_view_index_, freeform_view_, active_camera_view_,
                      window, frame, lmb_down_, rmb_down_, mouse, rest_of_model>>

\* Input::on_key on a press of G (input.cpp:79-82)
KeyBackground ==
    /\ show' = [show EXCEPT !.background = ~@]
    /\ checks' = sync_with_renderer(checks, show')
    /\ UNCHANGED <<loaded, current_view_index_, freeform_view_, active_camera_view_,
                   window, frame, lmb_down_, rmb_down_, mouse, rest_of_model>>

\* Input::on_key on a press of 1, 2, 3 or 4 (input.cpp:84-102)
KeyViewPress ==
    \E k \in ViewKeys :
       LET c == set_view(KeyView(k), current_view_index_, freeform_view_, loaded)
       IN  /\ current_view_index_' = c[1]
           /\ freeform_view_' = c[2]
           /\ active_camera_view_' =
                  set_current_camera_view(KeyView(k), active_camera_view_, loaded)
           /\ UNCHANGED <<show, checks, loaded, window, frame, lmb_down_, rmb_down_,
                          mouse, rest_of_model>>

\* a click on the button of view i (overlay.cpp:331-336), enabled while the
\* project is initialized
ViewButton ==
    /\ loaded.initialized
    /\ \E i \in 0..(Len(loaded.views) - 1) :
          LET c == set_view(i, current_view_index_, freeform_view_, loaded)
          IN  /\ active_camera_view_' = i
              /\ current_view_index_' = c[1]
              /\ freeform_view_' = c[2]
    /\ UNCHANGED <<show, checks, loaded, window, frame, lmb_down_, rmb_down_, mouse,
                   rest_of_model>>

\* a click on the Background checkbox (overlay.cpp:347-368), enabled in a
\* static view of an initialized project
BackgroundCheckbox ==
    /\ loaded.initialized
    /\ current_view_index_ >= 0
    /\ checks' = [checks EXCEPT !.background = ~@]
    /\ show' = [show EXCEPT !.background = ~@]
    /\ UNCHANGED <<loaded, current_view_index_, freeform_view_, active_camera_view_,
                   window, frame, lmb_down_, rmb_down_, mouse, rest_of_model>>

\* a click on a scene-model checkbox (overlay.cpp:392-407)
SceneModelCheckbox ==
    \E item \in toggle_items_ :
       /\ checks' = [checks EXCEPT ![item] = ~@]
       /\ show' = [show EXCEPT ![item] = ~@]
       /\ UNCHANGED <<loaded, current_view_index_, freeform_view_, active_camera_view_,
                      window, frame, lmb_down_, rmb_down_, mouse, rest_of_model>>

\* Input::on_mouse_button while the overlay does not capture the mouse
\* (input.cpp:110-122)
MouseButton ==
    /\ \E button \in {"left", "right"}, action \in {"press", "release"} :
          /\ lmb_down_' = IF button = "left" THEN action = "press" ELSE lmb_down_
          /\ rmb_down_' = IF button = "right" THEN action = "press" ELSE rmb_down_
    /\ UNCHANGED <<show, checks, loaded, current_view_index_, freeform_view_,
                   active_camera_view_, window, frame, mouse, rest_of_model>>

\* Input::on_cursor_pos (input.cpp:125-148)
CursorPos ==
    \E x \in {0}, y \in 0..MaxCursor, captured \in BOOLEAN :
       LET dx == x - mouse[1]
           dy == y - mouse[2]
           a1 == IF lmb_down_
                 THEN set_current_camera_view(-1, active_camera_view_, loaded)
                 ELSE active_camera_view_
           c1 == IF lmb_down_
                 THEN rotate(dx, dy, current_view_index_, freeform_view_)
                 ELSE <<current_view_index_, freeform_view_>>
           a2 == IF rmb_down_ THEN set_current_camera_view(-1, a1, loaded) ELSE a1
           c2 == IF rmb_down_ THEN zoom(TruncDiv(-dy, 2), c1[1], c1[2]) ELSE c1
       IN  /\ mouse' = <<x, y>>
           /\ active_camera_view_' = IF captured THEN active_camera_view_ ELSE a2
           /\ current_view_index_' = IF captured THEN current_view_index_ ELSE c2[1]
           /\ freeform_view_' = IF captured THEN freeform_view_ ELSE c2[2]
           /\ UNCHANGED <<show, checks, loaded, window, frame, lmb_down_, rmb_down_,
                          rest_of_model>>

\* the framebuffer-size callback (app.cpp:293-297): Renderer::resize
\* (renderer.cpp:120-127) and nothing else
FramebufferSize ==
    /\ \E r \in Resolutions : window' = r
    /\ UNCHANGED <<show, checks, loaded, current_view_index_, freeform_view_,
                   active_camera_view_, frame, lmb_down_, rmb_down_, mouse, rest_of_model>>

\* one Renderer::render of the frame loop: the frame is drawn for the window
\* with the current view, which is the object freeform_view_
RenderFrame ==
    /\ frame' = [drawn |-> TRUE, window |-> window, view |-> freeform_view_]
    /\ UNCHANGED <<show, checks, loaded, current_view_index_, freeform_view_,
                   active_camera_view_, window, lmb_down_, rmb_down_, mouse, rest_of_model>>

\* File > Open of a project App::load_project accepts
UiOpenLoad ==
    /\ \E n \in 1..MaxUiViews : TakeUi(LoadUi(n, show))
    /\ error' = "none"
    /\ UNCHANGED <<window, frame, lmb_down_, rmb_down_, mouse, project, files, cam_pc,
                   images, preview_i, key, before, scene_vars, app_vars, mask_vars,
                   call_vars>>

\* File > Open of a project App::load_project refuses: it returns before any
\* component is reached (app.cpp:118-166)
UiOpenRefused ==
    /\ error' = "invalid_chessboard"
    /\ UNCHANGED <<ui_vars, project, files, cam_pc, images, preview_i, key, before,
                   scene_vars, app_vars, mask_vars, call_vars>>

\* File > Close (overlay.cpp:154-158, 232-236)
UiCloseProject ==
    /\ loaded.initialized
    /\ TakeUi(UnloadUi(show, freeform_view_))
    /\ UNCHANGED <<window, frame, lmb_down_, rmb_down_, mouse, rest_of_model>>

\* the state App::App leaves: the components constructed, then the project of
\* the command line loaded, or unload_project without one (app.cpp:47-59)
UiInit ==
    /\ views = <<>>
    /\ SceneConstructed
    /\ CameraIdle
    /\ AppIdle
    /\ MaskIdle
    /\ CallIdle
    /\ window = <<VIEW_WIDTH, VIEW_HEIGHT>>
    /\ frame = NoFrame
    /\ lmb_down_ = FALSE
    /\ rmb_down_ = FALSE
    /\ mouse = <<0, 0>>
    /\ \E n \in 0..MaxUiViews :
          LET u == IF n = 0
                   THEN UnloadUi(RendererFlags, freeform_view(DEFAULT_EYE))
                   ELSE LoadUi(n, RendererFlags)
          IN  /\ loaded = u.loaded
              /\ freeform_view_ = u.freeform
              /\ current_view_index_ = u.index
              /\ show = u.show
              /\ checks = u.checks
              /\ active_camera_view_ = u.active

\* the views of the camera: keys 1-4, view buttons, drags, resizes, frames,
\* loads and unloads
ViewsNext ==
    \/ ViewButton
    \/ KeyViewPress
    \/ MouseButton
    \/ CursorPos
    \/ FramebufferSize
    \/ RenderFrame
    \/ UiOpenLoad
    \/ UiCloseProject

SpecViews == UiInit /\ [][ViewsNext]_vars

\* the flags of the renderer and the overlay: toggle keys, checkboxes, view
\* keys and buttons, loads, refused loads and unloads
TogglesNext ==
    \/ UiOpenLoad
    \/ UiOpenRefused
    \/ UiCloseProject
    \/ ViewButton
    \/ KeyViewPress
    \/ BackgroundCheckbox
    \/ KeyBackground
    \/ SceneModelCheckbox
    \/ KeyToggle

SpecToggles == UiInit /\ [][TogglesNext]_vars

\* the indices the callers of Overlay::set_current_camera_view pass: -1 from
\* Input::on_cursor_pos (input.cpp:137, 142), 0..3 from Input::on_key
\* (input.cpp:84-102)
CallerViews == {-1} \cup {KeyView(k) : k \in ViewKeys}

\* one call of Overlay::set_current_camera_view (overlay.cpp:108-113),
\* with a record of what it was given and what it left
SetCurrentCameraView ==
    /\ \E i \in CallerViews :
          /\ args' = [view_index |-> i, before |-> active_camera_view_,
                      views |-> Len(loaded.views)]
          /\ active_camera_view_' =
                 set_current_camera_view(i, active_camera_view_, loaded)
    /\ result' = <<active_camera_view_'>>
    /\ call_pc' = "set_current_camera_view"
    /\ UNCHANGED <<show, checks, loaded, current_view_index_, freeform_view_, window,
                   frame, lmb_down_, rmb_down_, mouse, scene_vars, camera_vars, app_vars,
                   mask_vars>>

\* the overlay's active view: the calls of set_current_camera_view, the view
\* buttons, loads and unloads
OverlayNext ==
    \/ SetCurrentCameraView
    \/ ViewButton
    \/ UiOpenLoad
    \/ UiCloseProject

SpecOverlay == UiInit /\ [][OverlayNext]_vars

(***************************************************************************)
(* Claims about the user interface.                                        *)
(***************************************************************************)

\* C25: Overlay::set_current_camera_view(i) leaves the active camera view i
\* when i is -1 or a valid index into the views of the loaded project, and
\* leaves it as it was for every other i.
C25_ActiveViewSetOnlyToValid ==
    call_pc = "set_current_camera_view" =>
        result[1] = IF \/ args.view_index = -1
                       \/ (args.view_index >= 0 /\ args.view_index < args.views)
                    THEN args.view_index
                    ELSE args.before

\* C27: a step that switches to, or stays in, a static view leaves the stored
\* freeform view as the user had it.
C27_FreeformViewSurvivesSetView ==
    [][current_view_index_' >= 0 => freeform_view_' = freeform_view_]_vars

\* C28: the overlay's active camera view is the camera's current view index.
C28_ActiveViewIsCurrentView == active_camera_view_ = current_view_index_

\* the display geometry of every view of the loaded project is the one
\* computed for the resolution r
GeometryFor(r) ==
    \A k \in 1..Len(loaded.views) :
       /\ loaded.views[k].fov = calc_fov(loaded.views[k].intrinsic.fx, r[1])
       /\ loaded.views[k].proj = calc_proj(loaded.views[k].intrinsic, r[1], r[2])

\* C21: every frame is rendered with the display geometry of every view of
\* the loaded project computed for the resolution of the window.
C21_GeometryFollowsResolution ==
    [][frame' # frame => GeometryFor(frame'.window)]_vars

\* C26: in freeform mode, or with no project loaded, no step turns the
\* renderer's show-background flag on.
C26_BackgroundOnlyInStaticView ==
    [][(~show.background /\ (~loaded.initialized \/ current_view_index_ < 0))
          => ~show'.background]_vars

\* C29: each checkbox state of the overlay equals the corresponding show flag
\* of the renderer.
C29_CheckboxesMirrorRenderer == \A f \in Flags : checks[f] = show[f]

\* a project is loaded, a key and a checkbox have switched models off, and
\* the background is on
C29_Witness ==
    /\ loaded.initialized
    /\ show.background
    /\ ~show.box
    /\ ~show.checkers
    /\ error = "invalid_chessboard"

\* C30: after a load in which calibration ran to its end, every view of the
\* project has a calibration record that opens, so the loop of
\* App::load_project would not ask for calibration on the next unforced load
\* of the same project.
C30_CalibrationWritesEveryRecord ==
    (cam_pc = "loaded" /\ "write_calibration" \in calls) =>
        /\ Len(files) = Len(project.views)
        /\ \A v \in 1..Len(files) : files[v].exists /\ files[v].opens
        /\ ~NeedsCalibration(FALSE, files)

====
